---- MODULE Spec2Model ----
(***************************************************************************)
(* CollabCode: the character CRDT (VectorClock, CRDTCharacter, CRDT) and   *)
(* the SyncEngine that exchanges its operations between browser tabs.      *)
(* Every tab is one replica; the shared localStorage area is the transport.*)
(***************************************************************************)
EXTENDS Integers, Sequences, FiniteSets, TLC

\* ------------------------------------------------------------------------
\* Bounds of the model
\* ------------------------------------------------------------------------

\* The replicas (browser tabs), named by their site ids.
Sites == {"s-aa", "s-bb"}

\* The characters a user may type.
Values == {"a", "b"}

\* Local edits are made while the replicas have made fewer than this in all.
MaxEdits == 3

\* The transport hands an envelope to a tab a second time at most this often.
MaxDuplicates == 1

\* The largest clock component of a record given to compareCharacters.
MaxClockInput == 1

\* The id counters of the records given to compareCharacters.
CounterInputs == {0, 9, 10}

\* The largest number of records in the document remote operations are
\* applied to, and the largest number of remote Inserts applied to it.
MaxStart == 2
MaxInserts == 2

\* The largest length of the text in the textarea.
MaxText == 3

\* The number of operations sent after which the textarea takes no more
\* input.
MaxInputOps == 5

\* The largest `keepRecent` the host passes to garbageCollect.
MaxKeep == 2

\* The number of cursor reports sent in a run.
MaxCursors == 1

\* ------------------------------------------------------------------------
\* Program constants
\* ------------------------------------------------------------------------

\* pendingAcks entry: maxRetries
MaxRetries == 3

\* receivedOperations is pruned when its size exceeds this ...
SeenThreshold == 1000

\* ... by deleting this many of its oldest ids.
PruneCount == 500

\* ------------------------------------------------------------------------
\* Strings, as far as the program compares them
\* ------------------------------------------------------------------------

\* The rank of a site id in the order of Array.prototype.sort and of
\* String.prototype.localeCompare ("s-aa" < "s-bb" < "s-cc").
SiteRank(s) ==
    CASE s = "s-aa" -> 1
      [] s = "s-bb" -> 2
      [] OTHER      -> 3

Sign(n) == IF n < 0 THEN -1 ELSE IF n > 0 THEN 1 ELSE 0

\* The decimal digits of a counter, as `${counter}` prints them.
RECURSIVE Digits(_)
Digits(n) == IF n < 10 THEN <<n>> ELSE Append(Digits(n \div 10), n % 10)

\* Lexicographic comparison of two digit strings: -1, 0 or 1.
RECURSIVE LexCompare(_, _)
LexCompare(s, t) ==
    IF s = <<>> /\ t = <<>> THEN 0
    ELSE IF s = <<>> THEN -1
    ELSE IF t = <<>> THEN 1
    ELSE IF Head(s) # Head(t) THEN Sign(Head(s) - Head(t))
    ELSE LexCompare(Tail(s), Tail(t))

\* id1.localeCompare(id2) for ids `${siteId}-${counter}`, kept as
\* [site, counter]: the site part decides, then the counters compare as text.
IdLocaleCompare(id1, id2) ==
    IF id1.site # id2.site
    THEN Sign(SiteRank(id1.site) - SiteRank(id2.site))
    ELSE LexCompare(Digits(id1.counter), Digits(id2.counter))

\* ------------------------------------------------------------------------
\* VectorClock
\* ------------------------------------------------------------------------

\* A clock object maps site ids to counters; a missing key reads as 0
\* (`clock[site] || 0`), so a clock is kept as a total function over Sites.
ZeroClock == [s \in Sites |-> 0]

\* VectorClock.increment on the clock of site `siteId`.
increment(clock, siteId) == [clock EXCEPT ![siteId] = @ + 1]

\* An update that takes the other clock as it is.
update_Overwrite(clock, otherClock) == otherClock

\* VectorClock.update: componentwise Math.max.
update(clock, otherClock) ==
    [s \in Sites |-> IF clock[s] >= otherClock[s] THEN clock[s] ELSE otherClock[s]]

\* VectorClock.compareTo: -1 "Before", 1 "After", 0 "Equal", null "Concurrent".
compareTo(clock, otherClock) ==
    LET isLess    == \E s \in Sites : clock[s] < otherClock[s]
        isGreater == \E s \in Sites : clock[s] > otherClock[s]
    IN  IF isLess /\ ~isGreater THEN "Before"
        ELSE IF isGreater /\ ~isLess THEN "After"
        ELSE IF ~isLess /\ ~isGreater THEN "Equal"
        ELSE "Concurrent"

\* ------------------------------------------------------------------------
\* CRDT
\* ------------------------------------------------------------------------

\* new CRDTCharacter(value, id, siteId, vectorClock): visible = true.
CRDTCharacter(value, id, siteId, clock) ==
    [value |-> value, id |-> id, siteId |-> siteId,
     vectorClock |-> clock, visible |-> TRUE]

\* new CRDT(siteId)
NewCRDT(siteId) ==
    [siteId |-> siteId, vectorClock |-> ZeroClock, characters |-> <<>>,
     counter |-> 0, operationHistory |-> <<>>]

\* The result of localDelete when it emits nothing.
Null == [type |-> "null"]

\* The sites in ascending order, as Array.from(allSites).sort() yields them.
RECURSIVE SortedSites(_)
SortedSites(S) ==
    IF S = {} THEN <<>>
    ELSE LET m == CHOOSE x \in S : \A y \in S : SiteRank(x) <= SiteRank(y)
         IN  <<m>> \o SortedSites(S \ {m})

\* A compareCharacters that stops after the clocks.
compareCharacters_ClockOnly(char1, char2) ==
    LET order == SortedSites(Sites)
        diff  == {i \in 1..Len(order) :
                     char1.vectorClock[order[i]] # char2.vectorClock[order[i]]}
    IN  IF diff # {}
        THEN LET i == CHOOSE j \in diff : \A k \in diff : j <= k
             IN  char1.vectorClock[order[i]] - char2.vectorClock[order[i]]
        ELSE 0

\* CRDT.compareCharacters: the first differing clock component in sorted
\* site order, then the site id, then the id compared as a string.
compareCharacters(char1, char2) ==
    LET order == SortedSites(Sites)
        diff  == {i \in 1..Len(order) :
                     char1.vectorClock[order[i]] # char2.vectorClock[order[i]]}
    IN  IF diff # {}
        THEN LET i == CHOOSE j \in diff : \A k \in diff : j <= k
             IN  char1.vectorClock[order[i]] - char2.vectorClock[order[i]]
        ELSE IF char1.siteId # char2.siteId
        THEN Sign(SiteRank(char1.siteId) - SiteRank(char2.siteId))
        ELSE IdLocaleCompare(char1.id, char2.id)

\* The visible records of a sequence, in order.
VisibleChars(chars) == SelectSeq(chars, LAMBDA c : c.visible)

\* CRDT.getText: the values of the visible records.
getText(chars) ==
    LET vis == VisibleChars(chars) IN [i \in 1..Len(vis) |-> vis[i].value]

\* The number of visible records among the first n.
VisibleBefore(chars, n) == Len(VisibleChars(SubSeq(chars, 1, n)))

\* A getVisiblePosition that does not skip tombstones.
getVisiblePosition_Raw(chars, index) ==
    IF index < Len(chars) THEN index ELSE Len(chars)

\* CRDT.getVisiblePosition: the 0-based internal index of the index-th
\* visible record, or characters.length when there is none.
getVisiblePosition(chars, index) ==
    LET hits == {i \in 0..(Len(chars) - 1) :
                    chars[i + 1].visible /\ VisibleBefore(chars, i) = index}
    IN  IF hits = {} THEN Len(chars)
        ELSE CHOOSE i \in hits : \A j \in hits : i <= j

\* Array.prototype.splice(index, 0, item)
Splice(seq, index, item) ==
    SubSeq(seq, 1, index) \o <<item>> \o SubSeq(seq, index + 1, Len(seq))

\* A record object is shared between `characters` and the insert operation
\* logged in operationHistory, so clearing its visible flag shows in both.
MarkDeleted(history, char) ==
    [i \in 1..Len(history) |->
        IF history[i].type = "insert" /\ history[i].char = char
        THEN [history[i] EXCEPT !.char.visible = FALSE]
        ELSE history[i]]

\* A localInsert whose record carries the clock from before the increment.
localInsert_StaleClock(c, position, value) ==
    LET clock     == increment(c.vectorClock, c.siteId)
        timestamp == clock[c.siteId]
        id        == [site |-> c.siteId, counter |-> c.counter]
        char      == CRDTCharacter(value, id, c.siteId, c.vectorClock)
        actualPosition == getVisiblePosition(c.characters, position)
        operation == [type |-> "insert", position |-> actualPosition,
                      char |-> char, timestamp |-> timestamp,
                      vectorClock |-> clock]
    IN  [crdt |-> [c EXCEPT !.vectorClock = clock,
                            !.counter = c.counter + 1,
                            !.characters = Splice(c.characters, actualPosition, char),
                            !.operationHistory = Append(c.operationHistory, operation)],
         op |-> operation]

\* CRDT.localInsert(position, value): the new CRDT state and the operation.
localInsert(c, position, value) ==
    LET clock     == increment(c.vectorClock, c.siteId)
        timestamp == clock[c.siteId]
        id        == [site |-> c.siteId, counter |-> c.counter]
        char      == CRDTCharacter(value, id, c.siteId, clock)
        actualPosition == getVisiblePosition(c.characters, position)
        operation == [type |-> "insert", position |-> actualPosition,
                      char |-> char, timestamp |-> timestamp,
                      vectorClock |-> clock]
    IN  [crdt |-> [c EXCEPT !.vectorClock = clock,
                            !.counter = c.counter + 1,
                            !.characters = Splice(c.characters, actualPosition, char),
                            !.operationHistory = Append(c.operationHistory, operation)],
         op |-> operation]

\* A localDelete that, out of range, turns every record into a tombstone.
localDelete_Sweep(c, position) ==
    LET clock     == increment(c.vectorClock, c.siteId)
        timestamp == clock[c.siteId]
        actualPosition == getVisiblePosition(c.characters, position)
        c1        == [c EXCEPT !.vectorClock = clock]
    IN  IF actualPosition >= Len(c.characters)
        THEN [crdt |-> [c1 EXCEPT !.characters =
                            [i \in 1..Len(c.characters) |->
                                [c.characters[i] EXCEPT !.visible = FALSE]]],
              op |-> Null]
        ELSE LET char == c.characters[actualPosition + 1]
                 operation ==
                     [type |-> "delete", position |-> actualPosition,
                      charId |-> char.id, timestamp |-> timestamp,
                      vectorClock |-> clock]
             IN  [crdt |->
                    [c1 EXCEPT
                       !.characters[actualPosition + 1].visible = FALSE,
                       !.operationHistory =
                           Append(MarkDeleted(c.operationHistory, char), operation)],
                  op |-> operation]

\* A localDelete that takes the visible position for the internal index.
localDelete_Raw(c, position) ==
    LET clock     == increment(c.vectorClock, c.siteId)
        timestamp == clock[c.siteId]
        actualPosition == position
        c1        == [c EXCEPT !.vectorClock = clock]
    IN  IF actualPosition >= Len(c.characters)
        THEN [crdt |-> c1, op |-> Null]
        ELSE LET char == c.characters[actualPosition + 1]
             IN  IF char.visible
                 THEN LET operation ==
                              [type |-> "delete", position |-> actualPosition,
                               charId |-> char.id, timestamp |-> timestamp,
                               vectorClock |-> clock]
                      IN  [crdt |->
                             [c1 EXCEPT
                                !.characters[actualPosition + 1].visible = FALSE,
                                !.operationHistory =
                                    Append(MarkDeleted(c.operationHistory, char),
                                           operation)],
                           op |-> operation]
                 ELSE [crdt |-> c1, op |-> Null]

\* CRDT.localDelete(position): the clock is incremented first, then the
\* position is resolved; out of range gives null.
localDelete(c, position) ==
    LET clock     == increment(c.vectorClock, c.siteId)
        timestamp == clock[c.siteId]
        actualPosition == getVisiblePosition(c.characters, position)
        c1        == [c EXCEPT !.vectorClock = clock]
    IN  IF actualPosition >= Len(c.characters) \/ actualPosition < 0
        THEN [crdt |-> c1, op |-> Null]
        ELSE LET char == c.characters[actualPosition + 1]
             IN  IF char.visible
                 THEN LET operation ==
                              [type |-> "delete", position |-> actualPosition,
                               charId |-> char.id, timestamp |-> timestamp,
                               vectorClock |-> clock]
                      IN  [crdt |->
                             [c1 EXCEPT
                                !.characters[actualPosition + 1].visible = FALSE,
                                !.operationHistory =
                                    Append(MarkDeleted(c.operationHistory, char),
                                           operation)],
                           op |-> operation]
                 ELSE [crdt |-> c1, op |-> Null]

\* A walk that always ends behind the last record.
InsertIndex_End(chars, char) == Len(chars)

\* The walk of remoteInsert: the length of the longest prefix of records
\* that all compare below the new one.
InsertIndex(chars, char) ==
    LET stop == {i \in 1..Len(chars) : ~(compareCharacters(chars[i], char) < 0)}
    IN  IF stop = {} THEN Len(chars)
        ELSE (CHOOSE i \in stop : \A j \in stop : i <= j) - 1

\* A remoteInsert without the check for a record of the same id.
remoteInsert_NoCheck(c, operation) ==
    [c EXCEPT !.vectorClock = update(c.vectorClock, operation.vectorClock),
              !.characters = Splice(@, InsertIndex(c.characters, operation.char),
                                    operation.char)]

\* CRDT.remoteInsert(operation)
remoteInsert(c, operation) ==
    LET clock       == update(c.vectorClock, operation.vectorClock)
        insertIndex == InsertIndex(c.characters, operation.char)
        exists      == \E i \in 1..Len(c.characters) :
                          c.characters[i].id = operation.char.id
    IN  [c EXCEPT !.vectorClock = clock,
                  !.characters = IF exists THEN @
                                 ELSE Splice(@, insertIndex, operation.char)]

\* A remoteDelete that toggles the visible flag.
remoteDelete_Toggle(c, operation) ==
    LET clock == update(c.vectorClock, operation.vectorClock)
        found == {i \in 1..Len(c.characters) :
                     c.characters[i].id = operation.charId}
    IN  IF found = {}
        THEN [c EXCEPT !.vectorClock = clock]
        ELSE LET charIndex == CHOOSE i \in found : \A j \in found : i <= j
             IN  [c EXCEPT !.vectorClock = clock,
                           !.characters[charIndex].visible = ~@]

\* CRDT.remoteDelete(operation)
remoteDelete(c, operation) ==
    LET clock == update(c.vectorClock, operation.vectorClock)
        found == {i \in 1..Len(c.characters) :
                     c.characters[i].id = operation.charId}
    IN  IF found = {}
        THEN [c EXCEPT !.vectorClock = clock]
        ELSE LET charIndex == CHOOSE i \in found : \A j \in found : i <= j
             IN  [c EXCEPT !.vectorClock = clock,
                           !.characters[charIndex].visible = FALSE,
                           !.operationHistory =
                               MarkDeleted(@, c.characters[charIndex])]

\* Array.prototype.slice(begin): a negative begin counts from the end, and
\* -0 is 0, the start of the array.
Slice(seq, begin) ==
    LET k == IF begin < 0
             THEN (IF Len(seq) + begin > 0 THEN Len(seq) + begin ELSE 0)
             ELSE (IF begin < Len(seq) THEN begin ELSE Len(seq))
    IN  SubSeq(seq, k + 1, Len(seq))

\* CRDT.garbageCollect(keepRecent): the visible records, then
\* tombstones.slice(-keepRecent).
garbageCollect(chars, keepRecent) ==
    LET visibleChars     == SelectSeq(chars, LAMBDA c : c.visible)
        recentTombstones == Slice(SelectSeq(chars, LAMBDA c : ~c.visible),
                                  0 - keepRecent)
    IN  visibleChars \o recentTombstones

\* ------------------------------------------------------------------------
\* SyncEngine: envelopes
\* ------------------------------------------------------------------------

\* SyncEngine.serializeOperation: the operation's fields copied one by one;
\* `char` only when the operation has one, `charId` only when defined
\* (JSON.stringify leaves out undefined members).
serializeOperation(operation) ==
    IF operation.type = "insert"
    THEN [type |-> operation.type, position |-> operation.position,
          timestamp |-> operation.timestamp,
          vectorClock |-> operation.vectorClock,
          char |-> [value |-> operation.char.value, id |-> operation.char.id,
                    siteId |-> operation.char.siteId,
                    vectorClock |-> operation.char.vectorClock,
                    visible |-> operation.char.visible]]
    ELSE [type |-> operation.type, position |-> operation.position,
          timestamp |-> operation.timestamp,
          vectorClock |-> operation.vectorClock,
          charId |-> operation.charId]

\* A deserializeOperation that leaves the rebuilt character with the
\* visible flag its constructor gives it.
deserializeOperation_DefaultVisible(data) ==
    IF "char" \in DOMAIN data
    THEN [type |-> data.type, position |-> data.position,
          timestamp |-> data.timestamp, vectorClock |-> data.vectorClock,
          char |-> CRDTCharacter(data.char.value, data.char.id,
                                 data.char.siteId, data.char.vectorClock)]
    ELSE [type |-> data.type, position |-> data.position,
          timestamp |-> data.timestamp, vectorClock |-> data.vectorClock,
          charId |-> data.charId]

\* SyncEngine.deserializeOperation: a new CRDTCharacter is built from
\* data.char and its visible flag is then overwritten with the sent one.
deserializeOperation(data) ==
    IF "char" \in DOMAIN data
    THEN [type |-> data.type, position |-> data.position,
          timestamp |-> data.timestamp, vectorClock |-> data.vectorClock,
          char |-> [CRDTCharacter(data.char.value, data.char.id,
                                  data.char.siteId, data.char.vectorClock)
                       EXCEPT !.visible = data.char.visible]]
    ELSE [type |-> data.type, position |-> data.position,
          timestamp |-> data.timestamp, vectorClock |-> data.vectorClock,
          charId |-> data.charId]

\* The messageId of an envelope; an ack envelope has none (undefined).
Undefined == <<"undefined", 0>>
MessageIdOf(message) ==
    IF "messageId" \in DOMAIN message THEN message.messageId ELSE Undefined

\* The envelope sendOperation builds. `${siteId}-${Date.now()}-${Math.random()}`
\* is a fresh id: here the site and the number of the send.
OperationMessage(siteId, operation, n) ==
    [type |-> "operation", operation |-> serializeOperation(operation),
     siteId |-> siteId, targetId |-> "broadcast", messageId |-> <<siteId, n>>]

\* The envelope sendAck builds: no messageId member.
AckMessage(siteId, messageId, targetSiteId) ==
    [type |-> "ack", ackId |-> messageId, siteId |-> siteId,
     targetId |-> targetSiteId]

\* The entry sendOperation puts into pendingAcks.
PendingEntry(message) ==
    [message |-> message, retries |-> 0, maxRetries |-> MaxRetries]

\* A broadcastMessage that writes every envelope under two keys.
broadcastMessage_Twice(message) ==
    {[msg |-> m, to |-> s] :
        m \in {message, [message EXCEPT !.targetId = "broadcast"]},
        s \in Sites \ {message.siteId}}

\* SyncEngine.broadcastMessage: localStorage.setItem raises a storage event
\* in every other tab; one copy in flight to each.
broadcastMessage(message) ==
    {[msg |-> message, to |-> s] : s \in Sites \ {message.siteId}}

\* The report sendCursor builds; the selection of a caret is empty.
CursorMessage(siteId, position, clock) ==
    [type |-> "cursor", siteId |-> siteId, position |-> position,
     selection |-> [start |-> position, end |-> position],
     vectorClock |-> clock]

\* A transform loop that also shifts for operations concurrent with the
\* report.
RECURSIVE TransformFrom_Concurrent(_, _, _, _)
TransformFrom_Concurrent(history, i, transformed, remoteVectorClock) ==
    IF i > Len(history) THEN transformed
    ELSE LET op       == history[i]
             relation == compareTo(op.vectorClock, remoteVectorClock)
             next     == IF relation = "After" \/ relation = "Concurrent"
                         THEN IF op.type = "insert" /\ op.position <= transformed
                              THEN transformed + 1
                              ELSE IF op.type = "delete" /\ op.position < transformed
                              THEN transformed - 1
                              ELSE transformed
                         ELSE transformed
         IN  TransformFrom_Concurrent(history, i + 1, next, remoteVectorClock)

\* The loop of transformCursorPosition from the i-th logged operation on.
RECURSIVE TransformFrom(_, _, _, _)
TransformFrom(history, i, transformed, remoteVectorClock) ==
    IF i > Len(history) THEN transformed
    ELSE LET op       == history[i]
             relation == compareTo(op.vectorClock, remoteVectorClock)
             next     == IF relation = "After"
                         THEN IF op.type = "insert" /\ op.position <= transformed
                              THEN transformed + 1
                              ELSE IF op.type = "delete" /\ op.position < transformed
                              THEN transformed - 1
                              ELSE transformed
                         ELSE transformed
         IN  TransformFrom(history, i + 1, next, remoteVectorClock)

\* SyncEngine.transformCursorPosition over crdt.operationHistory.
transformCursorPosition(history, position, remoteVectorClock) ==
    LET transformed == TransformFrom(history, 1, position, remoteVectorClock)
    IN  IF transformed > 0 THEN transformed ELSE 0

\* The arguments of one onCursorUpdate call.
CursorUpdate(history, message) ==
    [siteId |-> message.siteId,
     position |-> transformCursorPosition(history, message.position,
                                          message.vectorClock),
     selection |-> message.selection]

\* Set.add followed by the pruning of handleMessage: ids are kept in
\* arrival order, and when there are more than SeenThreshold of them the
\* first PruneCount are deleted.
\* An AddReceived that never prunes.
AddReceived_NoPrune(received, messageId) == Append(received, messageId)

AddReceived(received, messageId) ==
    LET added == Append(received, messageId)
    IN  IF Len(added) > SeenThreshold
        THEN SubSeq(added, PruneCount + 1, Len(added))
        ELSE added

Range(seq) == {seq[i] : i \in 1..Len(seq)}

\* A function without the key k (Map.delete).
MapDelete(f, k) == [x \in DOMAIN f \ {k} |-> f[x]]

\* A function with key k set to v (Map.set).
MapSet(f, k, v) == [x \in DOMAIN f \cup {k} |-> IF x = k THEN v ELSE f[x]]

\* ------------------------------------------------------------------------
\* State
\* ------------------------------------------------------------------------

VARIABLES
    vectorClock,         \* crdt.vectorClock.clock of each replica
    characters,          \* crdt.characters of each replica
    counter,             \* crdt.counter of each replica
    operationHistory,    \* crdt.operationHistory of each replica
    receivedOperations,  \* syncEngine.receivedOperations, in arrival order
    pendingAcks,         \* syncEngine.pendingAcks: messageId -> entry
    storage,             \* envelopes written to localStorage, not yet handled
    delivered,           \* envelopes handled once: the transport may repeat them
    repeated,            \* envelopes the transport has handed over a second time
    sentMessages,        \* every operation envelope ever broadcast
    ackLog,              \* the acks each replica has emitted, in order
    callbackLog,         \* the onRemoteOperation calls of each replica
    cursorStorage,       \* cursor reports written to localStorage, not yet handled
    cursorUpdates,       \* the onCursorUpdate calls of each replica, each
                         \* with the report it answers
    caret,               \* textarea.selectionStart of each replica's editor
    isOnline,            \* syncEngine.isOnline of each replica
    sentOffline,         \* the messageIds of the envelopes sent while the
                         \* sender's isOnline was false
    call                 \* a call of a function of the program on given
                         \* arguments, and what it returned

vars == <<vectorClock, characters, counter, operationHistory,
          receivedOperations, pendingAcks, storage, delivered,
          repeated, sentMessages, ackLog, callbackLog,
          cursorStorage, cursorUpdates, caret, isOnline, sentOffline, call>>

\* The CRDT object of replica r.
CRDT(r) ==
    [siteId |-> r, vectorClock |-> vectorClock[r], characters |-> characters[r],
     counter |-> counter[r], operationHistory |-> operationHistory[r]]

\* Replica r's CRDT object becomes c.
SetCRDT(r, c) ==
    /\ vectorClock' = [vectorClock EXCEPT ![r] = c.vectorClock]
    /\ characters' = [characters EXCEPT ![r] = c.characters]
    /\ counter' = [counter EXCEPT ![r] = c.counter]
    /\ operationHistory' = [operationHistory EXCEPT ![r] = c.operationHistory]

\* No function has been called on given arguments.
NoCall == [name |-> "none"]

\* new CRDT(siteId) and new SyncEngine(crdt, ...) in every tab.
NewReplicas ==
    /\ vectorClock = [r \in Sites |-> NewCRDT(r).vectorClock]
    /\ characters = [r \in Sites |-> NewCRDT(r).characters]
    /\ counter = [r \in Sites |-> NewCRDT(r).counter]
    /\ operationHistory = [r \in Sites |-> NewCRDT(r).operationHistory]
    /\ receivedOperations = [r \in Sites |-> <<>>]
    /\ pendingAcks = [r \in Sites |-> <<>>]
    /\ storage = {}
    /\ delivered = {}
    /\ repeated = {}
    /\ sentMessages = {}
    /\ ackLog = [r \in Sites |-> <<>>]
    /\ callbackLog = [r \in Sites |-> <<>>]
    /\ cursorStorage = {}
    /\ cursorUpdates = [r \in Sites |-> <<>>]
    /\ caret = [r \in Sites |-> 0]
    /\ isOnline = [r \in Sites |-> TRUE]
    /\ sentOffline = {}

Init == NewReplicas /\ call = NoCall

\* ------------------------------------------------------------------------
\* Operations
\* ------------------------------------------------------------------------

\* SyncEngine.sendOperation on replica r: the envelope goes into
\* pendingAcks and is broadcast.
sendOperation(r, operation) ==
    LET n == Cardinality({m \in sentMessages : m.siteId = r}) + 1
        message == OperationMessage(r, operation, n)
    IN  /\ pendingAcks' = [pendingAcks EXCEPT
                              ![r] = MapSet(@, message.messageId, PendingEntry(message))]
        /\ storage' = storage \cup broadcastMessage(message)
        /\ sentMessages' = sentMessages \cup {message}
        /\ sentOffline' = IF isOnline[r] THEN sentOffline
                          ELSE sentOffline \cup {message.messageId}

\* EditorController.handleInput, insert branch, for one character:
\* crdt.localInsert and then syncEngine.sendOperation.
LocalInsert(r, position, value) ==
    LET res == localInsert(CRDT(r), position, value)
    IN  /\ SetCRDT(r, res.crdt)
        /\ sendOperation(r, res.op)
        /\ caret' = [caret EXCEPT ![r] = position + 1]
        /\ UNCHANGED <<receivedOperations, delivered, repeated, ackLog, callbackLog,
                       cursorStorage, cursorUpdates, isOnline, call>>

\* EditorController.handleInput, delete branch, for one character:
\* crdt.localDelete, and syncEngine.sendOperation unless it returned null.
LocalDelete(r, position) ==
    LET res == localDelete(CRDT(r), position)
    IN  /\ SetCRDT(r, res.crdt)
        /\ IF res.op # Null
           THEN sendOperation(r, res.op)
           ELSE UNCHANGED <<pendingAcks, storage, sentMessages, sentOffline>>
        /\ caret' = [caret EXCEPT ![r] = position]
        /\ UNCHANGED <<receivedOperations, delivered, repeated, ackLog, callbackLog,
                       cursorStorage, cursorUpdates, isOnline, call>>

\* The texts the textarea can hold.
Texts == UNION {[1..n -> Values] : n \in 0..MaxText}

\* The first loop of calculateDiff: the length of the common prefix,
\* counted from k.
RECURSIVE CommonPrefix(_, _, _)
CommonPrefix(oldText, newText, k) ==
    IF k < Len(oldText) /\ k < Len(newText) /\ oldText[k + 1] = newText[k + 1]
    THEN CommonPrefix(oldText, newText, k + 1)
    ELSE k

\* The second loop of calculateDiff: the length of the common suffix that
\* does not reach into the common prefix, counted from k.
RECURSIVE CommonSuffix(_, _, _, _)
CommonSuffix(oldText, newText, prefixLen, k) ==
    IF /\ k < Len(oldText) - prefixLen
       /\ k < Len(newText) - prefixLen
       /\ oldText[Len(oldText) - k] = newText[Len(newText) - k]
    THEN CommonSuffix(oldText, newText, prefixLen, k + 1)
    ELSE k

\* EditorController.calculateDiff: the changes that turn oldText into
\* newText, a delete of the old middle and an insert of the new one.
calculateDiff(oldText, newText) ==
    LET prefixLen == CommonPrefix(oldText, newText, 0)
        suffixLen == CommonSuffix(oldText, newText, prefixLen, 0)
        oldMid    == SubSeq(oldText, prefixLen + 1, Len(oldText) - suffixLen)
        newMid    == SubSeq(newText, prefixLen + 1, Len(newText) - suffixLen)
        delete    == [type |-> "delete", position |-> prefixLen,
                      count |-> Len(oldMid)]
        insert    == [type |-> "insert", position |-> prefixLen,
                      text |-> newMid]
    IN  IF Len(oldMid) > 0 /\ Len(newMid) > 0 THEN <<delete, insert>>
        ELSE IF Len(oldMid) > 0 THEN <<delete>>
        ELSE IF Len(newMid) > 0 THEN <<insert>>
        ELSE <<>>

\* A delete loop that runs from the first character of the span to the
\* last.
RECURSIVE DeleteRun_Forward(_, _, _)
DeleteRun_Forward(s, change, i) ==
    IF i < 0 THEN s
    ELSE LET res == localDelete(s.crdt, change.position + (change.count - 1 - i))
         IN  DeleteRun_Forward(
                 [crdt |-> res.crdt,
                  ops  |-> IF res.op # Null THEN Append(s.ops, res.op) ELSE s.ops],
                 change, i - 1)

\* The delete loop of handleInput, from i down to 0: crdt.localDelete at
\* change.position + i; the operations that are not null are sent.
RECURSIVE DeleteRun(_, _, _)
DeleteRun(s, change, i) ==
    IF i < 0 THEN s
    ELSE LET res == localDelete(s.crdt, change.position + i)
         IN  DeleteRun(
                 [crdt |-> res.crdt,
                  ops  |-> IF res.op # Null THEN Append(s.ops, res.op) ELSE s.ops],
                 change, i - 1)

\* The insert loop of handleInput, from i up to the end of change.text:
\* crdt.localInsert at change.position + i.
RECURSIVE InsertRun(_, _, _)
InsertRun(s, change, i) ==
    IF i >= Len(change.text) THEN s
    ELSE LET res == localInsert(s.crdt, change.position + i, change.text[i + 1])
         IN  InsertRun([crdt |-> res.crdt, ops |-> Append(s.ops, res.op)],
                       change, i + 1)

\* changes.forEach of handleInput, from the k-th change on.
RECURSIVE ApplyChanges(_, _, _)
ApplyChanges(s, changes, k) ==
    IF k > Len(changes) THEN s
    ELSE ApplyChanges(IF changes[k].type = "insert"
                      THEN InsertRun(s, changes[k], 0)
                      ELSE DeleteRun(s, changes[k], changes[k].count - 1),
                      changes, k + 1)

\* EditorController.handleInput on the CRDT c with the textarea holding
\* currentText: the CRDT afterwards and the operations sent, in order.
handleInput(c, currentText) ==
    LET previousText == getText(c.characters)
    IN  IF currentText = previousText
        THEN [crdt |-> c, ops |-> <<>>]
        ELSE ApplyChanges([crdt |-> c, ops |-> <<>>],
                          calculateDiff(previousText, currentText), 1)

\* The input event of replica r's textarea, which holds currentText: the
\* whole of handleInput, every sendOperation included. The textarea keeps
\* its caret behind the text that was typed.
HandleInput(r, currentText) ==
    LET res      == handleInput(CRDT(r), currentText)
        base     == Cardinality({m \in sentMessages : m.siteId = r})
        messages == [k \in 1..Len(res.ops) |->
                        OperationMessage(r, res.ops[k], base + k)]
        ids      == {messages[k].messageId : k \in 1..Len(messages)}
        previousText == getText(characters[r])
        prefixLen    == CommonPrefix(previousText, currentText, 0)
    IN  /\ SetCRDT(r, res.crdt)
        /\ pendingAcks' =
              [pendingAcks EXCEPT
                  ![r] = [id \in DOMAIN pendingAcks[r] \cup ids |->
                             IF id \in ids
                             THEN PendingEntry(
                                      messages[CHOOSE k \in 1..Len(messages) :
                                                   messages[k].messageId = id])
                             ELSE pendingAcks[r][id]]]
        /\ storage' = storage \cup
                          UNION {broadcastMessage(messages[k]) :
                                     k \in 1..Len(messages)}
        /\ sentMessages' = sentMessages \cup Range(messages)
        /\ sentOffline' = IF isOnline[r] THEN sentOffline
                          ELSE sentOffline \cup ids
        /\ caret' = [caret EXCEPT
                        ![r] = Len(currentText)
                               - CommonSuffix(previousText, currentText,
                                              prefixLen, 0)]
        /\ UNCHANGED <<receivedOperations, delivered, repeated, ackLog, callbackLog,
                       cursorStorage, cursorUpdates, isOnline, call>>

\* EditorController.getVisiblePosition(crdtPosition): the number of visible
\* records at the internal indices 0..crdtPosition, minus one.
EditorVisiblePosition(chars, crdtPosition) ==
    LET last == IF crdtPosition + 1 < Len(chars) THEN crdtPosition + 1 ELSE Len(chars)
    IN  Len(VisibleChars(SubSeq(chars, 1, last))) - 1

\* EditorController.handleRemoteOperation with no selection: the caret
\* after the textarea has been given the text of `chars`, the document the
\* operation has been applied to. The textarea keeps its caret inside the
\* text.
handleRemoteOperation(chars, cursorPos, operation) ==
    LET visiblePos   == EditorVisiblePosition(chars, operation.position)
        newCursorPos == IF operation.type = "insert"
                        THEN (IF visiblePos <= cursorPos THEN cursorPos + 1
                              ELSE cursorPos)
                        ELSE IF operation.type = "delete"
                        THEN (IF visiblePos < cursorPos
                              THEN (IF cursorPos - 1 > 0 THEN cursorPos - 1 ELSE 0)
                              ELSE cursorPos)
                        ELSE cursorPos
        length       == Len(getText(chars))
    IN  IF newCursorPos < length THEN newCursorPos ELSE length

\* An origin test that lets every envelope through.
IsOwnMessage_Never(r, message) == FALSE

\* The first test of handleMessage: the envelope comes from this replica.
IsOwnMessage(r, message) == message.siteId = r

\* SyncEngine.handleMessage on replica r; `net` is what is in flight besides
\* the envelope being handled.
handleMessage(r, message, net) ==
    IF IsOwnMessage(r, message)
    THEN \* our own message
         /\ storage' = net
         /\ UNCHANGED <<vectorClock, characters, counter, operationHistory,
                        receivedOperations, pendingAcks, ackLog, callbackLog,
                        caret>>
    ELSE IF MessageIdOf(message) \in Range(receivedOperations[r])
    THEN \* duplicate
         /\ storage' = net
         /\ UNCHANGED <<vectorClock, characters, counter, operationHistory,
                        receivedOperations, pendingAcks, ackLog, callbackLog,
                        caret>>
    ELSE /\ receivedOperations' =
                [receivedOperations EXCEPT
                    ![r] = AddReceived(@, MessageIdOf(message))]
         /\ IF message.type = "operation"
            THEN LET operation  == deserializeOperation(message.operation)
                     comparison == compareTo(vectorClock[r], operation.vectorClock)
                     applied    == IF operation.type = "insert"
                                   THEN remoteInsert(CRDT(r), operation)
                                   ELSE IF operation.type = "delete"
                                   THEN remoteDelete(CRDT(r), operation)
                                   ELSE CRDT(r)
                 IN  IF comparison = "Concurrent" \/ comparison = "Before"
                     THEN /\ SetCRDT(r, applied)
                          /\ callbackLog' =
                                [callbackLog EXCEPT ![r] = Append(@, operation)]
                          /\ ackLog' =
                                [ackLog EXCEPT
                                    ![r] = Append(@, AckMessage(r, message.messageId,
                                                                message.siteId))]
                          /\ storage' =
                                net \cup broadcastMessage(
                                    AckMessage(r, message.messageId, message.siteId))
                          /\ caret' =
                                [caret EXCEPT
                                    ![r] = handleRemoteOperation(
                                               applied.characters, @, operation)]
                          /\ UNCHANGED pendingAcks
                     ELSE \* "Received operation from the past"
                          /\ storage' = net
                          /\ UNCHANGED <<vectorClock, characters, counter,
                                         operationHistory, pendingAcks, ackLog,
                                         callbackLog, caret>>
            ELSE IF message.type = "ack"
            THEN /\ pendingAcks' =
                       [pendingAcks EXCEPT ![r] = MapDelete(@, message.ackId)]
                 /\ storage' = net
                 /\ UNCHANGED <<vectorClock, characters, counter,
                                operationHistory, ackLog, callbackLog, caret>>
            ELSE /\ storage' = net
                 /\ UNCHANGED <<vectorClock, characters, counter,
                                operationHistory, pendingAcks, ackLog, callbackLog,
                                caret>>

\* SyncEngine.handleStorageMessage for a 'collab-op-' key on replica r:
\* the envelope is handled when it is a broadcast or addressed to r.
handleStorageMessage(r, message, net) ==
    IF message.targetId = r \/ message.targetId = "broadcast"
    THEN handleMessage(r, message, net)
    ELSE /\ storage' = net
         /\ UNCHANGED <<vectorClock, characters, counter, operationHistory,
                        receivedOperations, pendingAcks, ackLog, callbackLog,
                        caret>>

\* The storage event of an envelope in flight fires in its tab.
Deliver(e) ==
    /\ e \in storage
    /\ handleStorageMessage(e.to, e.msg, storage \ {e})
    /\ delivered' = delivered \cup {e}
    /\ UNCHANGED <<repeated, sentMessages, cursorStorage, cursorUpdates,
                   isOnline, sentOffline, call>>

\* The envelopes replica r has written itself: its operations and its acks.
OwnEnvelopes(r) ==
    {m \in sentMessages : m.siteId = r} \cup Range(ackLog[r])

\* handleMessage runs on replica r with an envelope r wrote itself.
Loopback(r, message) ==
    /\ message \in OwnEnvelopes(r)
    /\ handleMessage(r, message, storage)
    /\ delivered' = delivered \cup {[to |-> r, msg |-> message]}
    /\ UNCHANGED <<repeated, sentMessages, cursorStorage, cursorUpdates,
                   isOnline, sentOffline, call>>

\* The same envelope reaches the same tab a second time.
Redeliver(e) ==
    /\ e \in delivered \ repeated
    /\ handleStorageMessage(e.to, e.msg, storage)
    /\ repeated' = repeated \cup {e}
    /\ UNCHANGED <<delivered, sentMessages, cursorStorage, cursorUpdates,
                   isOnline, sentOffline, call>>

\* crdt.remoteInsert or crdt.remoteDelete is called on replica e.to once
\* more with the operation of an envelope the replica has applied before.
Reapply(e) ==
    /\ e \in delivered \ repeated
    /\ e.msg.type = "operation"
    /\ e.msg.siteId # e.to
    /\ LET operation == deserializeOperation(e.msg.operation)
       IN  /\ operation \in Range(callbackLog[e.to])
           /\ SetCRDT(e.to, IF operation.type = "insert"
                            THEN remoteInsert(CRDT(e.to), operation)
                            ELSE remoteDelete(CRDT(e.to), operation))
    /\ repeated' = repeated \cup {e}
    /\ UNCHANGED <<receivedOperations, pendingAcks, storage, delivered,
                   sentMessages, ackLog, callbackLog, cursorStorage,
                   cursorUpdates, caret, isOnline, sentOffline, call>>

\* EditorController.clear on replica r: the textarea, the document and the
\* operation log are emptied; the clock and the id counter stay.
Clear(r) ==
    /\ characters' = [characters EXCEPT ![r] = <<>>]
    /\ operationHistory' = [operationHistory EXCEPT ![r] = <<>>]
    /\ caret' = [caret EXCEPT ![r] = 0]
    /\ UNCHANGED <<vectorClock, counter, receivedOperations, pendingAcks,
                   storage, delivered, repeated, sentMessages, ackLog,
                   callbackLog, cursorStorage, cursorUpdates, isOnline,
                   sentOffline, call>>

\* The host calls crdt.garbageCollect(keepRecent) on replica r.
GarbageCollect(r, keepRecent) ==
    /\ characters' = [characters EXCEPT ![r] = garbageCollect(@, keepRecent)]
    /\ UNCHANGED <<vectorClock, counter, operationHistory, receivedOperations,
                   pendingAcks, storage, delivered, repeated, sentMessages,
                   ackLog, callbackLog, cursorStorage, cursorUpdates,
                   caret, isOnline, sentOffline, call>>

\* SyncEngine.sendCursor on replica r: setItem on 'collab-cursor-<siteId>'
\* raises a storage event in every other tab.
sendCursor(r, position) ==
    cursorStorage' = cursorStorage \cup
        {[msg |-> CursorMessage(r, position, vectorClock[r]), to |-> s] :
            s \in Sites \ {r}}

\* EditorController.updateCursorPosition: the caret of replica r is
\* reported.
SendCursor(r, position) ==
    /\ sendCursor(r, position)
    /\ UNCHANGED <<vectorClock, characters, counter, operationHistory,
                   receivedOperations, pendingAcks, storage, delivered,
                   repeated, sentMessages, ackLog, callbackLog, cursorUpdates,
                   caret, isOnline, sentOffline, call>>

\* SyncEngine.handleCursorUpdate on replica r.
handleCursorUpdate(r, message) ==
    cursorUpdates' =
        [cursorUpdates EXCEPT
            ![r] = Append(@, [message |-> message,
                              call |-> CursorUpdate(operationHistory[r], message)])]

\* SyncEngine.handleStorageMessage for a 'collab-cursor-' key: the storage
\* event of a cursor report fires in its tab.
HandleCursor(e) ==
    /\ e \in cursorStorage
    /\ cursorStorage' = cursorStorage \ {e}
    /\ IF e.msg.siteId # e.to
       THEN handleCursorUpdate(e.to, e.msg)
       ELSE UNCHANGED cursorUpdates
    /\ UNCHANGED <<vectorClock, characters, counter, operationHistory,
                   receivedOperations, pendingAcks, storage, delivered,
                   repeated, sentMessages, ackLog, callbackLog,
                   caret, isOnline, sentOffline, call>>

\* SyncEngine.setOnline(online) on replica r: the flag is stored (the
\* presence key it also writes is not part of the state here).
SetOnline(r, online) ==
    /\ isOnline' = [isOnline EXCEPT ![r] = online]
    /\ UNCHANGED <<vectorClock, characters, counter, operationHistory,
                   receivedOperations, pendingAcks, storage, delivered,
                   repeated, sentMessages, ackLog, callbackLog,
                   cursorStorage, cursorUpdates, caret, sentOffline, call>>

\* What Array.prototype.splice puts into `characters` when remoteInsert is
\* given an operation without `char`: the value undefined.
NotARecord == [type |-> "undefined"]

\* Every element of the document is a record.
WellFormed(chars) == \A i \in 1..Len(chars) : chars[i] # NotARecord

\* A clock ahead of every clock a replica reaches, in the sender's component.
AheadClock(s) == [ZeroClock EXCEPT ![s] = MaxEdits + 1]

\* The envelopes replica r may find under a 'collab-op-' key that do not
\* have the shape sendOperation and sendAck give them: text that is not
\* JSON, an envelope of a kind handleMessage has no branch for, an Insert
\* without `char` and a Delete without `charId`.
MalformedEnvelopes(r) ==
    {[type |-> "unparsable"]}
    \cup {[type |-> "ping", siteId |-> s, targetId |-> "broadcast",
           messageId |-> <<s, 0>>] : s \in Sites \ {r}}
    \cup UNION {
           {[type |-> "operation", siteId |-> s, targetId |-> "broadcast",
             messageId |-> <<s, 0>>,
             operation |-> [type |-> kind, position |-> 0, timestamp |-> 1,
                            vectorClock |-> clock]] :
                kind \in {"insert", "delete"},
                clock \in {ZeroClock, AheadClock(s)}} : s \in Sites \ {r}}

\* SyncEngine.handleStorageMessage on replica r for such an envelope. An
\* exception thrown on the way is caught by the try block of
\* handleStorageMessage, and what was assigned before stays assigned.
HandleMalformed(r, message) ==
    IF message.type = "unparsable"
       \/ message.messageId \in Range(receivedOperations[r])
    THEN \* JSON.parse throws, or handleMessage returns on a duplicate
         UNCHANGED vars
    ELSE /\ receivedOperations' =
                [receivedOperations EXCEPT ![r] = AddReceived(@, message.messageId)]
         /\ UNCHANGED <<counter, operationHistory, pendingAcks, delivered,
                        repeated, sentMessages, cursorStorage, cursorUpdates,
                        isOnline, sentOffline, call>>
         /\ IF message.type # "operation"
            THEN UNCHANGED <<vectorClock, characters, storage, ackLog,
                             callbackLog, caret>>
            ELSE LET operation  == message.operation
                     comparison == compareTo(vectorClock[r], operation.vectorClock)
                     clock      == update(vectorClock[r], operation.vectorClock)
                 IN  IF ~(comparison = "Concurrent" \/ comparison = "Before")
                     THEN UNCHANGED <<vectorClock, characters, storage, ackLog,
                                      callbackLog, caret>>
                     ELSE /\ vectorClock' = [vectorClock EXCEPT ![r] = clock]
                          /\ IF operation.type = "insert"
                             THEN IF characters[r] = <<>>
                                  THEN \* the walk is empty, `some` is false:
                                       \* splice(0, 0, undefined); then
                                       \* onRemoteOperation throws in getText
                                       /\ characters' =
                                             [characters EXCEPT ![r] = <<NotARecord>>]
                                       /\ callbackLog' =
                                             [callbackLog EXCEPT
                                                 ![r] = Append(@, operation)]
                                       /\ UNCHANGED <<storage, ackLog, caret>>
                                  ELSE \* compareCharacters throws on char2
                                       UNCHANGED <<characters, storage, ackLog,
                                                   callbackLog, caret>>
                             ELSE \* findIndex gives -1; callback and ack follow
                                  /\ callbackLog' =
                                        [callbackLog EXCEPT ![r] = Append(@, operation)]
                                  /\ caret' =
                                        [caret EXCEPT
                                            ![r] = handleRemoteOperation(
                                                       characters[r], @, operation)]
                                  /\ ackLog' =
                                        [ackLog EXCEPT
                                            ![r] = Append(@,
                                                AckMessage(r, message.messageId,
                                                           message.siteId))]
                                  /\ storage' =
                                        storage \cup broadcastMessage(
                                            AckMessage(r, message.messageId,
                                                       message.siteId))
                                  /\ UNCHANGED characters

\* The number of local edits made so far: every localInsert and every
\* localDelete increments the replica's own clock component once.
RECURSIVE SumOwn(_)
SumOwn(S) ==
    IF S = {} THEN 0
    ELSE LET r == CHOOSE x \in S : TRUE
         IN  vectorClock[r][r] + SumOwn(S \ {r})
EditsMade == SumOwn(Sites)

Next ==
    \/ \E r \in Sites :
          /\ EditsMade < MaxEdits
          /\ \E position \in 0..Len(VisibleChars(characters[r])), value \in Values :
                LocalInsert(r, position, value)
    \/ \E r \in Sites :
          /\ EditsMade < MaxEdits
          /\ \E position \in 0..Len(VisibleChars(characters[r])) :
                LocalDelete(r, position)
    \/ \E e \in storage : Deliver(e)
    \/ \E e \in delivered : Cardinality(repeated) < MaxDuplicates /\ Redeliver(e)
    \/ \E r \in Sites, keepRecent \in 0..MaxKeep : GarbageCollect(r, keepRecent)

Spec == Init /\ [][Next]_vars

\* Every localStorage.setItem raises its storage event in the other tabs:
\* an envelope in flight is eventually handled.
FairSpec == Spec /\ WF_vars(\E e \in storage : Deliver(e))

\* The replica whose document is edited.
LocalSite == CHOOSE s \in Sites : \A x \in Sites : SiteRank(s) <= SiteRank(x)

\* ------------------------------------------------------------------------
\* One document edited through the CRDT interface
\* ------------------------------------------------------------------------

\* The number of local edits when no envelope is delivered.
MaxEditsLocal == MaxEdits + 2

\* localInsert, localDelete and garbageCollect called on one replica with
\* every argument, positions past the end of the text included.
NextLocal ==
    \/ /\ EditsMade < MaxEditsLocal
       /\ \E position \in 0..(Len(VisibleChars(characters[LocalSite])) + 1),
             value \in Values :
             LocalInsert(LocalSite, position, value)
    \/ /\ EditsMade < MaxEditsLocal
       /\ \E position \in 0..(Len(VisibleChars(characters[LocalSite])) + 1) :
             LocalDelete(LocalSite, position)
    \/ \E keepRecent \in 0..MaxKeep : GarbageCollect(LocalSite, keepRecent)

SpecLocal == Init /\ [][NextLocal]_vars

\* ------------------------------------------------------------------------
\* Edits, deliveries and cursor reports
\* ------------------------------------------------------------------------

\* The number of cursor reports sent so far: every report sent is either
\* in flight or has been handled by the other replica.
RECURSIVE SumUpdates(_)
SumUpdates(S) ==
    IF S = {} THEN 0
    ELSE LET r == CHOOSE x \in S : TRUE
         IN  Len(cursorUpdates[r]) + SumUpdates(S \ {r})
CursorsSent == Cardinality(cursorStorage) + SumUpdates(Sites)

NextCursor ==
    \/ \E r \in Sites :
          /\ EditsMade < MaxEdits
          /\ \E position \in 0..Len(VisibleChars(characters[r])), value \in Values :
                LocalInsert(r, position, value)
    \/ \E r \in Sites :
          /\ EditsMade < MaxEdits
          /\ \E position \in 0..Len(VisibleChars(characters[r])) :
                LocalDelete(r, position)
    \/ \E e \in storage : Deliver(e)
    \/ \E r \in Sites :
          /\ CursorsSent < MaxCursors
          /\ \E position \in 0..Len(VisibleChars(characters[r])) :
                SendCursor(r, position)
    \/ \E e \in cursorStorage : HandleCursor(e)

SpecCursor == Init /\ [][NextCursor]_vars

\* ------------------------------------------------------------------------
\* Edits and deliveries while replicas go offline and online
\* ------------------------------------------------------------------------

\* One replica goes offline and online again, as in the network partition
\* scenario of the test guide.
NextOffline ==
    \/ \E r \in Sites :
          /\ EditsMade < MaxEdits
          /\ \E position \in 0..Len(VisibleChars(characters[r])), value \in Values :
                LocalInsert(r, position, value)
    \/ \E r \in Sites :
          /\ EditsMade < MaxEdits
          /\ \E position \in 0..Len(VisibleChars(characters[r])) :
                LocalDelete(r, position)
    \/ \E e \in storage : Deliver(e)
    \/ \E online \in BOOLEAN : SetOnline(LocalSite, online)

SpecOffline == Init /\ [][NextOffline]_vars

\* ------------------------------------------------------------------------
\* Edits, deliveries and malformed envelopes
\* ------------------------------------------------------------------------

\* A replica is followed as long as every element of its document is a
\* record. The malformed envelopes arrive at one replica.
NextMalformed ==
    \/ \E r \in Sites :
          /\ EditsMade < MaxEdits
          /\ WellFormed(characters[r])
          /\ \E position \in 0..Len(VisibleChars(characters[r])), value \in Values :
                LocalInsert(r, position, value)
    \/ \E r \in Sites :
          /\ EditsMade < MaxEdits
          /\ WellFormed(characters[r])
          /\ \E position \in 0..Len(VisibleChars(characters[r])) :
                LocalDelete(r, position)
    \/ \E e \in storage : WellFormed(characters[e.to]) /\ Deliver(e)
    \/ /\ WellFormed(characters[LocalSite])
       /\ \E message \in MalformedEnvelopes(LocalSite) :
             HandleMalformed(LocalSite, message)

SpecMalformed == Init /\ [][NextMalformed]_vars

\* ------------------------------------------------------------------------
\* A long run of inbound envelopes
\* ------------------------------------------------------------------------

\* Enough envelopes to prune the seen-set and fill it again half way.
MaxSeen == SeenThreshold + PruneCount + 2

\* The replica the envelopes come from.
RemoteSite == CHOOSE s \in Sites : s # LocalSite

\* An envelope of a kind handleMessage has no branch for: it is recorded in
\* receivedOperations and nothing else happens.
UnknownEnvelope(s, n) ==
    [type |-> "ping", siteId |-> s, targetId |-> "broadcast",
     messageId |-> <<s, n>>]

\* The number of the next envelope RemoteSite sends.
NextSeenNumber ==
    IF receivedOperations[LocalSite] = <<>> THEN 1
    ELSE receivedOperations[LocalSite][Len(receivedOperations[LocalSite])][2] + 1

\* LocalSite handles the n-th envelope of RemoteSite.
HandleSeen(n) == HandleMalformed(LocalSite, UnknownEnvelope(RemoteSite, n))

\* Envelopes arrive in sending order; the newest may arrive twice.
NextSeen ==
    \/ \E n \in 1..MaxSeen : n = NextSeenNumber /\ HandleSeen(n)
    \/ \E n \in 1..MaxSeen : n + 1 = NextSeenNumber /\ HandleSeen(n)

SpecSeen == Init /\ [][NextSeen]_vars

\* ------------------------------------------------------------------------
\* Edits, deliveries and envelopes that come back to their author
\* ------------------------------------------------------------------------

\* The envelopes that have come back to their author.
LoopedBack == {e \in delivered : e.to = e.msg.siteId}

NextLoop ==
    \/ \E r \in Sites :
          /\ EditsMade < MaxEdits
          /\ \E position \in 0..Len(VisibleChars(characters[r])), value \in Values :
                LocalInsert(r, position, value)
    \/ \E r \in Sites :
          /\ EditsMade < MaxEdits
          /\ \E position \in 0..Len(VisibleChars(characters[r])) :
                LocalDelete(r, position)
    \/ \E e \in storage : Deliver(e)
    \/ \E r \in Sites :
          /\ Cardinality(LoopedBack) < MaxDuplicates
          /\ \E message \in OwnEnvelopes(r) : Loopback(r, message)

SpecLoop == Init /\ [][NextLoop]_vars

\* ------------------------------------------------------------------------
\* compareCharacters on given records
\* ------------------------------------------------------------------------

\* The records compareCharacters is given: every clock with components up
\* to MaxClockInput, every site, every counter of CounterInputs.
RecordInputs ==
    {CRDTCharacter("a", [site |-> s, counter |-> n], s, clock) :
        s \in Sites, n \in CounterInputs, clock \in [Sites -> 0..MaxClockInput]}

\* The same record with another value and visible flag.
Relabelled(char) == [char EXCEPT !.value = "b", !.visible = FALSE]

InitCompare ==
    /\ NewReplicas
    /\ call \in {[name |-> "compareCharacters", args |-> <<a, b, c>>] :
                    a \in RecordInputs, b \in RecordInputs, c \in RecordInputs}

\* compareCharacters is called on the pairs of the three records.
CompareCharacters ==
    /\ call.name = "compareCharacters"
    /\ "result" \notin DOMAIN call
    /\ LET a == call.args[1]
           b == call.args[2]
           c == call.args[3]
       IN  call' = [name |-> call.name, args |-> call.args,
                    result |-> [ab |-> compareCharacters(a, b),
                                ba |-> compareCharacters(b, a),
                                bc |-> compareCharacters(b, c),
                                ac |-> compareCharacters(a, c),
                                relabelled |->
                                    compareCharacters(Relabelled(a),
                                                      Relabelled(b))]]
    /\ UNCHANGED <<vectorClock, characters, counter, operationHistory,
                   receivedOperations, pendingAcks, storage, delivered,
                   repeated, sentMessages, ackLog, callbackLog, cursorStorage,
                   cursorUpdates, caret, isOnline, sentOffline>>

NextCompare == CompareCharacters

SpecCompare == InitCompare /\ [][NextCompare]_vars

\* ------------------------------------------------------------------------
\* Edits, deliveries, garbage collection and the clear action
\* ------------------------------------------------------------------------

NextClear ==
    \/ \E r \in Sites :
          /\ EditsMade < MaxEdits
          /\ \E position \in 0..Len(VisibleChars(characters[r])), value \in Values :
                LocalInsert(r, position, value)
    \/ \E r \in Sites :
          /\ EditsMade < MaxEdits
          /\ \E position \in 0..Len(VisibleChars(characters[r])) :
                LocalDelete(r, position)
    \/ \E e \in storage : Deliver(e)
    \/ \E keepRecent \in 0..MaxKeep : GarbageCollect(LocalSite, keepRecent)
    \/ Clear(LocalSite)

SpecClear == Init /\ [][NextClear]_vars

\* ------------------------------------------------------------------------
\* Edits and deliveries alone
\* ------------------------------------------------------------------------

NextExchange ==
    \/ \E r \in Sites :
          /\ EditsMade < MaxEdits
          /\ \E position \in 0..Len(VisibleChars(characters[r])), value \in Values :
                LocalInsert(r, position, value)
    \/ \E r \in Sites :
          /\ EditsMade < MaxEdits
          /\ \E position \in 0..Len(VisibleChars(characters[r])) :
                LocalDelete(r, position)
    \/ \E e \in storage : Deliver(e)

SpecExchange == Init /\ [][NextExchange]_vars

\* Every envelope in flight is eventually handled.
FairExchange == SpecExchange /\ WF_vars(\E e \in storage : Deliver(e))

\* ------------------------------------------------------------------------
\* Input events of one textarea
\* ------------------------------------------------------------------------

\* The operations the input events of a replica have sent so far.
InputsMade == Cardinality(sentMessages)

NextInput ==
    \/ \E currentText \in Texts :
          /\ InputsMade < MaxInputOps
          /\ HandleInput(LocalSite, currentText)
    \/ \E keepRecent \in 0..MaxKeep : GarbageCollect(LocalSite, keepRecent)

SpecInput == Init /\ [][NextInput]_vars

\* ------------------------------------------------------------------------
\* Edits and several cursor reports
\* ------------------------------------------------------------------------

\* The number of cursor reports sent when no operation envelope is
\* delivered.
MaxReports == MaxCursors + 1

\* The replicas edit and report their carets; the reports arrive in any
\* order.
NextReports ==
    \/ \E r \in Sites :
          /\ EditsMade < MaxEdits
          /\ \E position \in 0..Len(VisibleChars(characters[r])), value \in Values :
                LocalInsert(r, position, value)
    \/ \E r \in Sites :
          /\ EditsMade < MaxEdits
          /\ \E position \in 0..Len(VisibleChars(characters[r])) :
                LocalDelete(r, position)
    \/ \E r \in Sites :
          /\ CursorsSent < MaxReports
          /\ \E position \in 0..Len(VisibleChars(characters[r])) :
                SendCursor(r, position)
    \/ \E e \in cursorStorage : HandleCursor(e)

SpecReports == Init /\ [][NextReports]_vars

\* ------------------------------------------------------------------------
\* The scenario "simultaneous insert at the same position"
\* ------------------------------------------------------------------------

\* The characters typed in the scenario.
ValuesC2 == {"X", "Y"}

\* Two more edits are made after "aaa" was typed.
MaxEditsC2 == MaxEdits + 2

\* Replica "s-aa" types "aaa": three localInserts at positions 0, 1 and 2.
TypedC2 ==
    LET t1 == localInsert(NewCRDT("s-aa"), 0, "a")
        t2 == localInsert(t1.crdt, 1, "a")
        t3 == localInsert(t2.crdt, 2, "a")
    IN  [crdt |-> t3.crdt, ops |-> <<t1.op, t2.op, t3.op>>]

\* The three envelopes sendOperation made of them.
MessagesC2 == [n \in 1..3 |-> OperationMessage("s-aa", TypedC2.ops[n], n)]

\* Replica "s-bb" after handling the three envelopes in the order sent.
ReceivedC2 ==
    LET d(n) == deserializeOperation(MessagesC2[n].operation)
    IN  remoteInsert(remoteInsert(remoteInsert(NewCRDT("s-bb"), d(1)), d(2)), d(3))

\* Both replicas show "aaa": "s-aa" typed it, "s-bb" handled the three
\* envelopes in order and acknowledged each, and "s-aa" handled the acks
\* in order.
InitC2 ==
    /\ vectorClock = [r \in Sites |-> IF r = "s-aa" THEN TypedC2.crdt.vectorClock
                                      ELSE ReceivedC2.vectorClock]
    /\ characters = [r \in Sites |-> IF r = "s-aa" THEN TypedC2.crdt.characters
                                     ELSE ReceivedC2.characters]
    /\ counter = [r \in Sites |-> IF r = "s-aa" THEN TypedC2.crdt.counter
                                  ELSE ReceivedC2.counter]
    /\ operationHistory =
          [r \in Sites |-> IF r = "s-aa" THEN TypedC2.crdt.operationHistory
                           ELSE ReceivedC2.operationHistory]
    /\ receivedOperations =
          [r \in Sites |-> IF r = "s-aa" THEN <<Undefined>>
                           ELSE [n \in 1..3 |-> MessagesC2[n].messageId]]
    /\ pendingAcks =
          [r \in Sites |->
              IF r = "s-aa"
              THEN [id \in {MessagesC2[2].messageId, MessagesC2[3].messageId} |->
                       PendingEntry(MessagesC2[id[2]])]
              ELSE <<>>]
    /\ storage = {}
    /\ delivered =
          UNION {{[msg |-> MessagesC2[n], to |-> "s-bb"],
                  [msg |-> AckMessage("s-bb", MessagesC2[n].messageId, "s-aa"),
                   to |-> "s-aa"]} : n \in 1..3}
    /\ repeated = {}
    /\ sentMessages = {MessagesC2[n] : n \in 1..3}
    /\ ackLog =
          [r \in Sites |->
              IF r = "s-bb"
              THEN [n \in 1..3 |-> AckMessage("s-bb", MessagesC2[n].messageId, "s-aa")]
              ELSE <<>>]
    /\ callbackLog =
          [r \in Sites |->
              IF r = "s-bb"
              THEN [n \in 1..3 |-> deserializeOperation(MessagesC2[n].operation)]
              ELSE <<>>]
    /\ cursorStorage = {}
    /\ cursorUpdates = [r \in Sites |-> <<>>]
    /\ caret = [r \in Sites |-> 3]
    /\ isOnline = [r \in Sites |-> TRUE]
    /\ sentOffline = {}
    /\ call = NoCall

NextC2 ==
    \/ \E r \in Sites :
          /\ EditsMade < MaxEditsC2
          /\ \E position \in 0..Len(VisibleChars(characters[r])), value \in ValuesC2 :
                LocalInsert(r, position, value)
    \/ \E r \in Sites :
          /\ EditsMade < MaxEditsC2
          /\ \E position \in 0..Len(VisibleChars(characters[r])) :
                LocalDelete(r, position)
    \/ \E e \in storage : Deliver(e)
    \/ \E e \in delivered : Cardinality(repeated) < MaxDuplicates /\ Redeliver(e)
    \/ \E r \in Sites, keepRecent \in 0..MaxKeep : GarbageCollect(r, keepRecent)

SpecC2 == InitC2 /\ [][NextC2]_vars

\* The same scenario with operations applied a second time at the document
\* layer instead of envelopes handled a second time.
NextReapply ==
    \/ \E r \in Sites :
          /\ EditsMade < MaxEditsC2
          /\ \E position \in 0..Len(VisibleChars(characters[r])), value \in ValuesC2 :
                LocalInsert(r, position, value)
    \/ \E r \in Sites :
          /\ EditsMade < MaxEditsC2
          /\ \E position \in 0..Len(VisibleChars(characters[r])) :
                LocalDelete(r, position)
    \/ \E e \in storage : Deliver(e)
    \/ \E e \in delivered : Cardinality(repeated) < MaxDuplicates /\ Reapply(e)
    \/ \E r \in Sites, keepRecent \in 0..MaxKeep : GarbageCollect(r, keepRecent)

SpecReapply == InitC2 /\ [][NextReapply]_vars

\* ------------------------------------------------------------------------
\* Observations used by the properties
\* ------------------------------------------------------------------------

\* The ids of the records in a replica's document.
Ids(chars) == {chars[i].id : i \in 1..Len(chars)}

\* The index of x in a sequence that holds it.
IndexOf(seq, x) == CHOOSE i \in 1..Len(seq) : seq[i] = x

\* Replica r has handled the operation envelope m of another site.
Handled(r, m) == m.siteId # r /\ m.messageId \in Range(receivedOperations[r])

\* Replica r has handled every operation envelope of every other replica.
ReceivedAll(r) ==
    \A m \in sentMessages : m.siteId # r => m.messageId \in Range(receivedOperations[r])

\* The effect of the operation of envelope m is present in r's document.
AppliedAt(r, m) ==
    IF m.operation.type = "insert"
    THEN m.operation.char.id \in Ids(characters[r])
    ELSE \E i \in 1..Len(characters[r]) :
            /\ characters[r][i].id = m.operation.charId
            /\ ~characters[r][i].visible

\* How many elements of a sequence satisfy Test.
Count(seq, Test(_)) == Len(SelectSeq(seq, Test))

\* ------------------------------------------------------------------------
\* Properties
\* ------------------------------------------------------------------------

\* C1 (convergence): once every replica has handled every other replica's
\* operation envelopes, all replicas hold the same characters sequence (same
\* records, same order, same visible flags) and so the same text.
C1_Convergence ==
    (\A r \in Sites : ReceivedAll(r))
        => \A r1, r2 \in Sites :
              /\ characters[r1] = characters[r2]
              /\ getText(characters[r1]) = getText(characters[r2])

\* C2 (simultaneous insert at the same position): both replicas show "aaa";
\* "s-aa" does localInsert(1, "X") and "s-bb" does localInsert(1, "Y"), each
\* before handling the other's envelope. After both envelopes have been
\* handled, both replicas show "aXYaa".
C2_SimultaneousInsert ==
    LET hA == operationHistory["s-aa"]
        hB == operationHistory["s-bb"]
    IN  ( /\ vectorClock["s-aa"]["s-aa"] = 4
          /\ vectorClock["s-bb"]["s-bb"] = 1
          /\ Len(hA) = 4
          /\ hA[4].type = "insert"
          /\ hA[4].position = 1
          /\ hA[4].char.value = "X"
          /\ hA[4].vectorClock["s-bb"] = 0
          /\ Len(hB) = 1
          /\ hB[1].type = "insert"
          /\ hB[1].position = 1
          /\ hB[1].char.value = "Y"
          /\ hB[1].vectorClock["s-aa"] = 3
          /\ ReceivedAll("s-aa")
          /\ ReceivedAll("s-bb") )
        => /\ getText(characters["s-aa"]) = <<"a", "X", "Y", "a", "a">>
           /\ getText(characters["s-bb"]) = <<"a", "X", "Y", "a", "a">>

\* C3 (total order): in every state the characters of every replica are
\* strictly ascending under compareCharacters.
C3_TotalOrder ==
    \A r \in Sites :
        \A i, j \in 1..Len(characters[r]) :
            i < j => compareCharacters(characters[r][i], characters[r][j]) < 0

\* C4 (out-of-order tolerance): every operation envelope of another site
\* that a replica has handled was applied, whatever the clocks were: its
\* operation was passed to onRemoteOperation and an Insert's record is in
\* the document.
C4_OutOfOrderTolerance ==
    \A r \in Sites :
        \A m \in sentMessages :
            Handled(r, m) =>
                /\ deserializeOperation(m.operation) \in Range(callbackLog[r])
                /\ m.operation.type = "insert" =>
                      m.operation.char.id \in Ids(characters[r])

\* C5 (delete overtakes insert): a replica that handled Delete(id) before
\* Insert(id) ends as one that handled them the other way round: the record
\* is in its document and is a tombstone.
C5_DeleteOvertakesInsert ==
    \A r \in Sites :
        \A mI, mD \in sentMessages :
            ( /\ mI.operation.type = "insert"
              /\ mD.operation.type = "delete"
              /\ mD.operation.charId = mI.operation.char.id
              /\ Handled(r, mI)
              /\ Handled(r, mD)
              /\ IndexOf(receivedOperations[r], mD.messageId)
                    < IndexOf(receivedOperations[r], mI.messageId) )
            => \E i \in 1..Len(characters[r]) :
                  /\ characters[r][i].id = mI.operation.char.id
                  /\ ~characters[r][i].visible

\* C6 (duplicate envelope): the second delivery of an operation envelope
\* changes nothing on the replica, and the two deliveries together have
\* produced exactly one Ack, one onRemoteOperation call and the effect of
\* the operation on the document.
C6_DuplicateEnvelope ==
    [][\A e \in delivered :
          (e.msg.type = "operation" /\ Redeliver(e)) =>
              /\ UNCHANGED <<vectorClock, characters, counter, operationHistory,
                             receivedOperations, pendingAcks>>
              /\ Count(ackLog'[e.to], LAMBDA a : a.ackId = e.msg.messageId) = 1
              /\ Count(callbackLog'[e.to],
                       LAMBDA o : o = deserializeOperation(e.msg.operation)) = 1
              /\ e.msg.operation.type = "insert" =>
                    Count(characters'[e.to],
                          LAMBDA c : c.id = e.msg.operation.char.id) = 1
      ]_vars

\* The ack envelope a has reached the replica it is addressed to.
AckReached(a) == [msg |-> a, to |-> a.targetId] \in delivered

\* C7 (ack clears the pending entry): once an Ack has reached the replica it
\* is addressed to, pendingAcks of that replica has no entry under its ackId.
C7_AckClearsPending ==
    \A p \in Sites :
        \A i \in 1..Len(ackLog[p]) :
            AckReached(ackLog[p][i]) =>
                ackLog[p][i].ackId \notin DOMAIN pendingAcks[ackLog[p][i].targetId]

\* The message ids the replicas can give out within the bound on edits.
MsgIds == {<<s, n>> : s \in Sites, n \in 1..MaxEdits}

\* The SyncEngine takes four callbacks (onRemoteOperation, onCursorUpdate,
\* onPeerJoin, onPeerLeave) and none for a failed delivery: nothing is ever
\* reported for a message id.
DeliveryFailedReported(id) == FALSE

\* C8 (at-least-once delivery): every operation envelope produced by
\* sendOperation is eventually applied at every other replica, or a
\* delivery-failed event is eventually reported for it.
C8_AtLeastOnce ==
    \A id \in MsgIds :
        (\E m \in sentMessages : m.messageId = id)
            ~> ( \/ \E m \in sentMessages :
                       /\ m.messageId = id
                       /\ \A r \in Sites \ {m.siteId} : AppliedAt(r, m)
                 \/ DeliveryFailedReported(id) )

\* C9 (retransmission): retries never exceeds maxRetries, and every
\* pendingAcks entry eventually leaves the table: acknowledged, or dropped
\* after its last retry.
C9_Retransmission ==
    /\ [](\A r \in Sites :
             \A id \in DOMAIN pendingAcks[r] :
                pendingAcks[r][id].retries <= pendingAcks[r][id].maxRetries)
    /\ \A r \in Sites :
          \A id \in MsgIds :
             (id \in DOMAIN pendingAcks[r]) ~> (id \notin DOMAIN pendingAcks[r])

\* C10 (local delete NoOp leaves the clock alone): a localDelete at a
\* position outside the visible range returns null and leaves the replica's
\* vector clock as it was.
C10_NoOpDeleteKeepsClock ==
    [][\A r \in Sites :
          \A position \in 0..MaxEdits :
              ( /\ position >= Len(VisibleChars(characters[r]))
                /\ LocalDelete(r, position) )
              => /\ localDelete(CRDT(r), position).op = Null
                 /\ vectorClock'[r] = vectorClock[r]
      ]_vars

\* ------------------------------------------------------------------------
\* The CRDT contract
\* ------------------------------------------------------------------------

\* The sequence without its i-th element.
Remove(seq, i) == SubSeq(seq, 1, i - 1) \o SubSeq(seq, i + 1, Len(seq))

Min(a, b) == IF a <= b THEN a ELSE b

\* The last element of a non-empty sequence.
Last(seq) == seq[Len(seq)]

\* C11 (local delete NoOp leaves document and log alone): a localDelete
\* that returns null changes no record and no visible flag, appends nothing
\* to operationHistory, and the editor sends no envelope for it.
C11_NoOpDeleteFrame ==
    [][\A r \in Sites :
          \A position \in 0..(Len(VisibleChars(characters[r])) + 1) :
              ( /\ LocalDelete(r, position)
                /\ localDelete(CRDT(r), position).op = Null )
              => /\ characters'[r] = characters[r]
                 /\ operationHistory'[r] = operationHistory[r]
                 /\ storage' = storage
                 /\ sentMessages' = sentMessages
                 /\ pendingAcks' = pendingAcks
      ]_vars

\* A replica whose document holds a visible record and a tombstone has
\* made a local delete that emitted nothing: its own clock component
\* counts more edits than its log holds operations.
C11_Witness ==
    \E r \in Sites :
        /\ vectorClock[r][r] > Len(operationHistory[r])
        /\ \E i, j \in 1..Len(characters[r]) :
              characters[r][i].visible /\ ~characters[r][j].visible

\* The post-condition of localInsert(position, value) from document `old`
\* to document `new`.
InsertPost(old, new, position, value) ==
    LET k     == Min(position, Len(VisibleChars(old)))
        fresh == {i \in 1..Len(new) : new[i].id \notin Ids(old)}
    IN  /\ Cardinality(fresh) = 1
        /\ \A i \in fresh :
              /\ new[i].visible
              /\ new[i].value = value
              /\ VisibleBefore(new, i - 1) = k
              /\ Remove(new, i) = old
        /\ getText(new) = Splice(getText(old), k, value)

\* C12 (local insert post-condition): after localInsert(p, v) the new
\* record is visible at visible index min(p, old visible length), the text
\* is the old text with v inserted there, and every other record keeps its
\* visible flag and its place relative to the others, whatever tombstones
\* the document holds.
C12_LocalInsertPost ==
    [][\A r \in Sites :
          \A position \in 0..(Len(VisibleChars(characters[r])) + 1),
             value \in Values :
              LocalInsert(r, position, value)
              => InsertPost(characters[r], characters'[r], position, value)
      ]_vars

\* The record of the replica's latest insert stands right after a
\* tombstone and right before a visible record.
C12_Witness ==
    \E r \in Sites :
        /\ operationHistory[r] # <<>>
        /\ Last(operationHistory[r]).type = "insert"
        /\ \E i \in 2..(Len(characters[r]) - 1) :
              /\ characters[r][i].id = Last(operationHistory[r]).char.id
              /\ ~characters[r][i - 1].visible
              /\ characters[r][i + 1].visible

\* The post-condition of localDelete(position) from document `old` to
\* document `new`, with `operation` the operation returned.
DeletePost(old, new, position, operation) ==
    LET target  == VisibleChars(old)[position + 1]
        changed == {i \in 1..Len(old) : new[i] # old[i]}
    IN  /\ Len(new) = Len(old)
        /\ Cardinality(changed) = 1
        /\ \A i \in changed :
              /\ old[i] = target
              /\ VisibleBefore(old, i - 1) = position
              /\ new[i] = [old[i] EXCEPT !.visible = FALSE]
        /\ getText(new) = Remove(getText(old), position + 1)
        /\ operation.type = "delete"
        /\ operation.charId = target.id

\* C13 (local delete effect): for a position inside the visible text,
\* localDelete(p) turns exactly the p-th visible record into a tombstone,
\* the text loses the character at index p, and the Delete operation
\* returned carries that record's id.
C13_LocalDeleteEffect ==
    [][\A r \in Sites :
          \A position \in 0..(Len(VisibleChars(characters[r])) - 1) :
              LocalDelete(r, position)
              => /\ localDelete(CRDT(r), position).op # Null
                 /\ operationHistory'[r] # <<>>
                 /\ Last(operationHistory'[r]) = localDelete(CRDT(r), position).op
                 /\ DeletePost(characters[r], characters'[r], position,
                               localDelete(CRDT(r), position).op)
      ]_vars

\* The replica's latest operation is a Delete whose target stands behind a
\* tombstone and a visible record: its visible position is neither 0 nor
\* its internal index.
C13_Witness ==
    \E r \in Sites :
        /\ operationHistory[r] # <<>>
        /\ Last(operationHistory[r]).type = "delete"
        /\ \E i \in 1..Len(characters[r]) :
              /\ characters[r][i].id = Last(operationHistory[r]).charId
              /\ ~characters[r][i].visible
              /\ VisibleBefore(characters[r], i - 1) > 0
              /\ VisibleBefore(characters[r], i - 1) < i - 1
              /\ Last(operationHistory[r]).position = i - 1

\* C14 (clock monotonicity): over every step no component of a replica's
\* vector clock decreases, and a local edit that logs an operation leaves
\* the replica's own component strictly larger.
C14_ClockMonotonic ==
    [][\A r \in Sites :
          /\ \A s \in Sites : vectorClock'[r][s] >= vectorClock[r][s]
          /\ Len(operationHistory'[r]) > Len(operationHistory[r])
                => vectorClock'[r][r] > vectorClock[r][r]
      ]_vars

\* A replica that has edited has since applied a remote operation whose
\* clock does not know of that edit.
C14_Witness ==
    \E r \in Sites :
        /\ callbackLog[r] # <<>>
        /\ Last(callbackLog[r]).vectorClock[r] < vectorClock[r][r]
        /\ \E s \in Sites \ {r} :
              vectorClock[r][s] = Last(callbackLog[r]).vectorClock[s]

\* The Insert operation that carries the record `char`.
InsertOf(char) ==
    [type |-> "insert", position |-> 0,
     char |-> [char EXCEPT !.visible = TRUE],
     timestamp |-> char.vectorClock[char.siteId],
     vectorClock |-> char.vectorClock]

\* C15 (unique identity): no two records of a replica's document share an
\* id, no two Insert envelopes ever sent carry the same id, and
\* remoteInsert of a record whose id the document holds adds no record.
C15_UniqueIdentity ==
    /\ \A r \in Sites :
          \A i, j \in 1..Len(characters[r]) :
              characters[r][i].id = characters[r][j].id => i = j
    /\ \A m1, m2 \in sentMessages :
          ( /\ m1.operation.type = "insert"
            /\ m2.operation.type = "insert"
            /\ m1.operation.char.id = m2.operation.char.id )
          => m1 = m2
    /\ \A r \in Sites :
          \A i \in 1..Len(characters[r]) :
              remoteInsert(CRDT(r), InsertOf(characters[r][i])).characters
                  = characters[r]

\* An Insert envelope has reached a replica twice, the replica holds the
\* record, and it holds a second record of the same origin.
C15_Witness ==
    \E e \in repeated :
        /\ e.msg.type = "operation"
        /\ e.msg.operation.type = "insert"
        /\ \E i, j \in 1..Len(characters[e.to]) :
              /\ i # j
              /\ characters[e.to][i].id = e.msg.operation.char.id
              /\ characters[e.to][j].siteId = characters[e.to][i].siteId

\* The ids whose Delete replica r has logged or applied.
DeletedAt(r) ==
    {op.charId : op \in {o \in Range(operationHistory[r]) \cup Range(callbackLog[r]) :
                            o.type = "delete"}}

\* The ids of the tombstones of a document.
TombstoneIds(chars) == {chars[i].id : i \in {j \in 1..Len(chars) : ~chars[j].visible}}

\* C16 (tombstone permanence): a record that is a tombstone on a replica,
\* or whose Delete the replica has logged or applied (a record becomes a
\* tombstone in no other way, so this covers the tombstones garbage
\* collection has removed), is not visible on that replica after any step.
C16_TombstonePermanence ==
    [][\A r \in Sites :
          \A i \in 1..Len(characters'[r]) :
              characters'[r][i].visible
              => characters'[r][i].id
                    \notin TombstoneIds(characters[r]) \cup DeletedAt(r)
      ]_vars

\* Garbage collection has removed a tombstone from a replica, and the
\* Insert envelope of that record has reached the replica again.
C16_Witness ==
    \E e \in repeated :
        /\ e.msg.type = "operation"
        /\ e.msg.operation.type = "insert"
        /\ e.msg.operation.char.id \in DeletedAt(e.to)
        /\ e.msg.operation.char.id \notin Ids(characters[e.to])

\* The effect of `operation` is present in the document `chars`.
EffectIn(chars, operation) ==
    IF operation.type = "insert"
    THEN operation.char.id \in Ids(chars)
    ELSE \E i \in 1..Len(chars) :
            chars[i].id = operation.charId /\ ~chars[i].visible

\* C17 (Ack implies applied): when a replica emits an Ack for an envelope,
\* the effect of the envelope's operation is in the replica's document (the
\* record of an Insert is present, the target of a Delete is present as a
\* tombstone), and the Ack is addressed to the envelope's origin.
C17_AckImpliesApplied ==
    [][\A r \in Sites :
          Len(ackLog'[r]) > Len(ackLog[r])
          => \A m \in sentMessages :
                m.messageId = Last(ackLog'[r]).ackId
                => /\ EffectIn(characters'[r], m.operation)
                   /\ Last(ackLog'[r]).targetId = m.siteId
      ]_vars

\* The tombstones of a document, in order.
Tombstones(chars) == SelectSeq(chars, LAMBDA c : ~c.visible)

\* The post-condition of garbageCollect(keep) from document `old` to
\* document `new`.
GCPost(old, new, keep) ==
    LET T == Len(Tombstones(old))
        n == Min(keep, T)
    IN  /\ VisibleChars(new) = VisibleChars(old)
        /\ Tombstones(new) = SubSeq(Tombstones(old), T - n + 1, T)
        /\ getText(new) = getText(old)

\* C18 (garbage collection result): for every keep >= 0, after
\* garbageCollect(keep) the document holds every record that was visible,
\* and of its T tombstones exactly the last min(keep, T); the text is
\* unchanged.
C18_GarbageCollectResult ==
    [][\A r \in Sites :
          \A keepRecent \in 0..MaxKeep :
              GarbageCollect(r, keepRecent)
              => GCPost(characters[r], characters'[r], keepRecent)
      ]_vars

\* Clock c1 is strictly after clock c2: no component smaller, one larger.
StrictlyAfter(c1, c2) ==
    /\ \A s \in Sites : c1[s] >= c2[s]
    /\ \E s \in Sites : c1[s] > c2[s]

\* The transform rule applied to the logged operations from the i-th on.
RECURSIVE ShiftRule(_, _, _, _)
ShiftRule(history, i, current, reportedClock) ==
    IF i > Len(history) THEN current
    ELSE LET op == history[i]
             shift == IF ~StrictlyAfter(op.vectorClock, reportedClock) THEN 0
                      ELSE IF op.type = "insert" /\ op.position <= current THEN 1
                      ELSE IF op.type = "delete" /\ op.position < current THEN -1
                      ELSE 0
         IN  ShiftRule(history, i + 1, current + shift, reportedClock)

C20_CursorBounds ==
    [][\A e \in cursorStorage :
          HandleCursor(e)
          => /\ Last(cursorUpdates'[e.to]).call.position >= 0
             /\ Last(cursorUpdates'[e.to]).call.position
                   <= Len(VisibleChars(characters'[e.to]))
      ]_vars

\* ------------------------------------------------------------------------
\* Cursor reports, connectivity and inbound envelopes
\* ------------------------------------------------------------------------

\* C21 (cursor last-writer-wins): a cursor report whose clock is strictly
\* before the clock of a report the replica has already answered for the
\* same site triggers no onCursorUpdate: the newer report keeps deciding the
\* position shown.
C21_CursorLastWriterWins ==
    [][\A e \in cursorStorage :
          ( /\ HandleCursor(e)
            /\ \E k \in 1..Len(cursorUpdates[e.to]) :
                  /\ cursorUpdates[e.to][k].message.siteId = e.msg.siteId
                  /\ compareTo(e.msg.vectorClock,
                               cursorUpdates[e.to][k].message.vectorClock) = "Before" )
          => cursorUpdates'[e.to] = cursorUpdates[e.to]
      ]_vars

\* C22 (offline behaviour): an operation a replica produced while it was
\* set offline is not applied by a peer as long as the replica is offline;
\* it waits in pendingAcks until setOnline(true).
C22_OfflineNotDelivered ==
    [][\A e \in storage :
          ( /\ Deliver(e)
            /\ e.msg.type = "operation"
            /\ e.msg.messageId \in sentOffline
            /\ ~isOnline[e.msg.siteId] )
          => /\ characters'[e.to] = characters[e.to]
             /\ callbackLog'[e.to] = callbackLog[e.to]
      ]_vars

\* C23 (malformed inbound envelope): handling an envelope that does not
\* parse, is of an unknown kind, or is an Insert without a character record
\* or a Delete without a target id leaves the replica's `characters` as it
\* was, whatever the document holds.
C23_MalformedDropped ==
    [][\A r \in Sites :
          \A message \in MalformedEnvelopes(r) :
              ( WellFormed(characters[r]) /\ HandleMalformed(r, message) )
              => characters'[r] = characters[r]
      ]_vars

\* The index of the record with the given id in a document that holds it.
IndexOfId(chars, id) == CHOOSE i \in 1..Len(chars) : chars[i].id = id

\* The caret the rule of C24 asks for: D is the receiver's document before
\* the remote operation, E the document after it, c the caret before it.
CaretRule(D, E, c, operation) ==
    IF operation.type = "insert"
    THEN IF /\ operation.char.id \notin Ids(D)
            /\ operation.char.id \in Ids(E)
            /\ VisibleBefore(E, IndexOfId(E, operation.char.id) - 1) <= c
         THEN c + 1
         ELSE c
    ELSE IF /\ operation.charId \in Ids(D)
            /\ D[IndexOfId(D, operation.charId)].visible
            /\ VisibleBefore(D, IndexOfId(D, operation.charId) - 1) < c
         THEN (IF c - 1 > 0 THEN c - 1 ELSE 0)
         ELSE c

\* C24 (local caret follows remote edits): after a remote operation has
\* been applied and handed to the editor, the caret is c+1 if the inserted
\* character landed at a visible index <= c in the receiver's document, c-1
\* (not below 0) if the deleted character was at a visible index < c, and c
\* otherwise.
C24_CaretFollowsRemote ==
    [][\A e \in storage :
          ( /\ Deliver(e)
            /\ Len(callbackLog'[e.to]) = Len(callbackLog[e.to]) + 1 )
          => caret'[e.to] = CaretRule(characters[e.to], characters'[e.to],
                                      caret[e.to], Last(callbackLog'[e.to]))
      ]_vars

\* The operation envelopes replica r has sent.
SentBy(r) == {m \in sentMessages : m.siteId = r}

\* A replica that has applied nothing yet.
FreshReplica == NewCRDT("s-new")

\* The first k operations replica r sent, given in sending order to a fresh
\* replica, which applies each with remoteInsert or remoteDelete.
RECURSIVE Replay(_, _)
Replay(r, k) ==
    IF k = 0 THEN FreshReplica
    ELSE LET message   == CHOOSE m \in SentBy(r) : m.messageId = <<r, k>>
             operation == deserializeOperation(message.operation)
         IN  IF operation.type = "insert"
             THEN remoteInsert(Replay(r, k - 1), operation)
             ELSE remoteDelete(Replay(r, k - 1), operation)

\* Two documents hold the same record ids in the same order with the same
\* visible flags.
SameDocument(D, E) ==
    /\ Len(D) = Len(E)
    /\ \A i \in 1..Len(D) : D[i].id = E[i].id /\ D[i].visible = E[i].visible

\* C25 (replay law): the document of a replica that has applied only its
\* own operations equals, in record ids, order and visible flags, the
\* document a fresh replica builds from the same operations applied as
\* remote operations.
C25_ReplayLaw ==
    \A r \in Sites :
        callbackLog[r] = <<>>
        => SameDocument(characters[r],
                        Replay(r, Cardinality(SentBy(r))).characters)

\* Two operations agree in type, position, timestamp, vectorClock and
\* charId, and in every field of the character an Insert carries.
SameOperation(a, b) ==
    /\ a.type = b.type
    /\ a.position = b.position
    /\ a.timestamp = b.timestamp
    /\ a.vectorClock = b.vectorClock
    /\ ("charId" \in DOMAIN a) = ("charId" \in DOMAIN b)
    /\ "charId" \in DOMAIN a => a.charId = b.charId
    /\ ("char" \in DOMAIN a) = ("char" \in DOMAIN b)
    /\ a.type = "insert" =>
          /\ "char" \in DOMAIN a
          /\ a.char.value = b.char.value
          /\ a.char.id = b.char.id
          /\ a.char.siteId = b.char.siteId
          /\ a.char.vectorClock = b.char.vectorClock
          /\ a.char.visible = b.char.visible

\* C26 (serialization round trip): every operation localInsert or
\* localDelete produced comes back from
\* deserializeOperation(serializeOperation(op)) with the same type,
\* position, timestamp, vectorClock, charId and character fields, and
\* serializing the result again gives the same payload.
C26_SerializationRoundTrip ==
    \A r \in Sites :
        \A i \in 1..Len(operationHistory[r]) :
            LET op   == operationHistory[r][i]
                back == deserializeOperation(serializeOperation(op))
            IN  /\ SameOperation(op, back)
                /\ serializeOperation(back) = serializeOperation(op)

\* An Insert whose character has been deleted since, at a position other
\* than 0, and a Delete are in the log.
C26_Witness ==
    \E r \in Sites :
        /\ \E i \in 1..Len(operationHistory[r]) :
              /\ operationHistory[r][i].type = "insert"
              /\ operationHistory[r][i].position > 0
              /\ ~operationHistory[r][i].char.visible
        /\ \E i \in 1..Len(operationHistory[r]) :
              operationHistory[r][i].type = "delete"

\* C27 (bounded seen-set): after handleMessage has handled an envelope,
\* receivedOperations holds at most 1000 ids and the id just recorded is
\* its newest; when the addition takes the size over 1000 the ids removed
\* are exactly the 500 oldest in arrival order and the others stay in
\* order, otherwise none is removed.
C27_BoundedSeenSet ==
    [][LET n   == NextSeenNumber
           old == receivedOperations[LocalSite]
           new == receivedOperations'[LocalSite]
       IN  ( /\ n <= MaxSeen
             /\ HandleSeen(n)
             /\ <<RemoteSite, n>> \notin Range(old) )
           => /\ Len(new) <= SeenThreshold
              /\ new # <<>> /\ Last(new) = <<RemoteSite, n>>
              /\ IF Len(old) + 1 > SeenThreshold
                 THEN /\ Len(new) = Len(old) + 1 - PruneCount
                      /\ SubSeq(new, 1, Len(new) - 1) =
                            SubSeq(old, PruneCount + 1, Len(old))
                 ELSE /\ Len(new) = Len(old) + 1
                      /\ SubSeq(new, 1, Len(old)) = old
      ]_vars

\* The seen-set has just been pruned: the 500 oldest ids are gone.
C27_Witness ==
    /\ Len(receivedOperations[LocalSite]) = SeenThreshold + 1 - PruneCount
    /\ receivedOperations[LocalSite][1] = <<RemoteSite, PruneCount + 1>>

\* C28 (loopback suppression): handleMessage given an envelope of the
\* replica's own site changes nothing: no document, vector clock,
\* receivedOperations or pendingAcks changes, no Ack is sent and no
\* callback is invoked.
C28_LoopbackSuppressed ==
    [][\A r \in Sites :
          \A message \in OwnEnvelopes(r) :
              Loopback(r, message)
              => /\ characters' = characters
                 /\ vectorClock' = vectorClock
                 /\ receivedOperations' = receivedOperations
                 /\ pendingAcks' = pendingAcks
                 /\ operationHistory' = operationHistory
                 /\ ackLog' = ackLog
                 /\ storage' = storage
                 /\ callbackLog' = callbackLog
                 /\ caret' = caret
      ]_vars

\* An operation envelope has come back to its author, a replica that has
\* applied an operation of the other replica as well.
C28_Witness ==
    \E e \in LoopedBack :
        /\ e.msg.type = "operation"
        /\ callbackLog[e.to] # <<>>

\* C29 (operation log completeness): an operation received from the network
\* and applied is appended to the replica's operationHistory, as a locally
\* produced one is.
C29_RemoteOperationLogged ==
    [][\A e \in storage :
          ( /\ Deliver(e)
            /\ Len(callbackLog'[e.to]) = Len(callbackLog[e.to]) + 1 )
          => /\ Len(operationHistory'[e.to]) = Len(operationHistory[e.to]) + 1
             /\ Last(operationHistory'[e.to]).vectorClock =
                   Last(callbackLog'[e.to]).vectorClock
      ]_vars

\* C30 (per-replica operation order): of two operations the same replica
\* emitted, the later one carries a strictly larger value of that replica's
\* own clock component.
C30_EmissionOrder ==
    \A m1, m2 \in sentMessages :
        ( /\ m1.siteId = m2.siteId
          /\ m1.messageId[2] < m2.messageId[2] )
        => m1.operation.vectorClock[m1.siteId] <
              m2.operation.vectorClock[m2.siteId]

\* A replica has emitted two operations and applied an operation of the
\* other replica in between.
C30_Witness ==
    \E m1, m2 \in sentMessages :
        /\ m1.siteId = m2.siteId
        /\ m1.messageId[2] < m2.messageId[2]
        /\ \E s \in Sites \ {m1.siteId} :
              m1.operation.vectorClock[s] < m2.operation.vectorClock[s]

\* ------------------------------------------------------------------------
\* Clocks, the record order and the document layer
\* ------------------------------------------------------------------------

\* The larger of two numbers.
Max(a, b) == IF a >= b THEN a ELSE b

\* The operation envelopes of other replicas whose storage event has fired
\* at replica r.
OperationsHandledAt(r) ==
    {e \in delivered : e.to = r /\ e.msg.type = "operation" /\ e.msg.siteId # r}

\* C31 (clock merge on receive): after handleMessage has handled an
\* operation envelope of another site that is not a duplicate, applied or
\* dropped, every component of the receiver's vector clock is the maximum of
\* its old value and the operation's value, so the clock dominates the
\* operation's clock.
C31_ClockMergeOnReceive ==
    [][\A e \in storage :
          ( /\ Deliver(e)
            /\ e.msg.type = "operation"
            /\ e.msg.siteId # e.to
            /\ e.msg.messageId \notin Range(receivedOperations[e.to]) )
          => \A s \in Sites :
                /\ vectorClock'[e.to][s] =
                      Max(vectorClock[e.to][s], e.msg.operation.vectorClock[s])
                /\ vectorClock'[e.to][s] >= e.msg.operation.vectorClock[s]
      ]_vars

\* A replica has applied an operation and dropped another one as being
\* from the past.
C31_Witness ==
    \E r \in Sites :
        /\ callbackLog[r] # <<>>
        /\ Cardinality(OperationsHandledAt(r)) > Len(callbackLog[r])

\* compareCharacters has returned for the three records of the call.
Compared == call.name = "compareCharacters" /\ "result" \in DOMAIN call

\* C32 (compareCharacters is a strict total order on records with distinct
\* ids): the result is 0 only for records with the same id, swapping the
\* arguments flips the sign, a < b and b < c give a < c, and the result is
\* the same for records that differ only in value and visible flag.
C32_StrictTotalOrder ==
    Compared =>
        LET a == call.args[1]
            b == call.args[2]
            r == call.result
        IN  /\ r.ab = 0 => a.id = b.id
            /\ Sign(r.ab) = -Sign(r.ba)
            /\ (r.ab < 0 /\ r.bc < 0) => r.ac < 0
            /\ r.relabelled = r.ab

\* Three records of one site with one clock have been compared: a < b < c
\* by their ids alone.
C32_Witness ==
    /\ Compared
    /\ call.args[1].vectorClock = call.args[2].vectorClock
    /\ call.args[2].vectorClock = call.args[3].vectorClock
    /\ call.args[1].siteId = call.args[2].siteId
    /\ call.args[2].siteId = call.args[3].siteId
    /\ call.result.ab < 0
    /\ call.result.bc < 0

RECURSIVE SortRecords(_)
SortRecords(S) ==
    IF S = {} THEN <<>>
    ELSE LET m == CHOOSE x \in S :
                      \A y \in S \ {x} : compareCharacters(x, y) < 0
         IN  <<m>> \o SortRecords(S \ {m})

\* No two records of the set share an id.
DistinctIds(S) == \A x, y \in S : x.id = y.id => x = y

\* The Delete operation a replica at `clock` emits for the record `char`.
DeleteOf(char, clock) ==
    [type |-> "delete", position |-> 0, charId |-> char.id,
     timestamp |-> clock[char.siteId], vectorClock |-> clock]

\* The subsets of S of at most n elements.
RECURSIVE SubsetsUpTo(_, _)
SubsetsUpTo(S, n) ==
    IF n = 0 THEN {{}}
    ELSE LET smaller == SubsetsUpTo(S, n - 1)
         IN  smaller \cup {T \cup {x} : T \in smaller, x \in S}

\* The records the documents and the Inserts are made of.
RecordsCommute == {char \in RecordInputs : char.id.counter # 0}

\* A sorted document of at most MaxStart records, at most MaxInserts
\* Inserts of other records, and Deletes of records of the document.
InitCommute ==
    \E start \in SubsetsUpTo(RecordsCommute, MaxStart),
       added \in SubsetsUpTo(RecordsCommute, MaxInserts) :
    \E removed \in SUBSET start :
        /\ start \cap added = {}
        /\ DistinctIds(start \cup added)
        /\ vectorClock = [r \in Sites |-> ZeroClock]
        /\ characters = [r \in Sites |-> IF r = LocalSite THEN SortRecords(start)
                                         ELSE <<>>]
        /\ counter = [r \in Sites |-> 0]
        /\ operationHistory = [r \in Sites |-> <<>>]
        /\ receivedOperations = [r \in Sites |-> <<>>]
        /\ pendingAcks = [r \in Sites |-> <<>>]
        /\ storage = {}
        /\ delivered = {}
        /\ repeated = {}
        /\ sentMessages = {}
        /\ ackLog = [r \in Sites |-> <<>>]
        /\ callbackLog = [r \in Sites |-> <<>>]
        /\ cursorStorage = {}
        /\ cursorUpdates = [r \in Sites |-> <<>>]
        /\ caret = [r \in Sites |-> 0]
        /\ isOnline = [r \in Sites |-> TRUE]
        /\ sentOffline = {}
        /\ call = [name |-> "remote",
                   start |-> SortRecords(start),
                   operations |->
                       {InsertOf(char) : char \in added}
                       \cup {DeleteOf(char, char.vectorClock) : char \in removed},
                   pending |->
                       {InsertOf(char) : char \in added}
                       \cup {DeleteOf(char, char.vectorClock) : char \in removed}]

\* crdt.remoteInsert or crdt.remoteDelete is called on LocalSite with one
\* of the operations not applied yet.
ApplyRemote(operation) ==
    /\ call.name = "remote"
    /\ operation \in call.pending
    /\ SetCRDT(LocalSite, IF operation.type = "insert"
                          THEN remoteInsert(CRDT(LocalSite), operation)
                          ELSE remoteDelete(CRDT(LocalSite), operation))
    /\ call' = [call EXCEPT !.pending = @ \ {operation}]
    /\ UNCHANGED <<receivedOperations, pendingAcks, storage, delivered,
                   repeated, sentMessages, ackLog, callbackLog, cursorStorage,
                   cursorUpdates, caret, isOnline, sentOffline>>

NextCommute == \E operation \in call.pending : ApplyRemote(operation)

SpecCommute == InitCommute /\ [][NextCommute]_vars

\* The operations applied so far.
AppliedRemote == call.operations \ call.pending

\* The document the operations of a set make of `start`, whatever the order
\* they are applied in: the records in ascending order, those of the
\* Deletes invisible.
DocumentOf(start, operations) ==
    LET added   == {op.char : op \in {o \in operations : o.type = "insert"}}
        removed == {op.charId : op \in {o \in operations : o.type = "delete"}}
        sorted  == SortRecords(Range(start) \cup added)
    IN  [i \in 1..Len(sorted) |->
            IF sorted[i].id \in removed
            THEN [sorted[i] EXCEPT !.visible = FALSE]
            ELSE sorted[i]]

\* C35 (remote operations commute at the document layer): from a sorted
\* document, remote Inserts of records with distinct ids and remote Deletes
\* of records of the document, applied through remoteInsert and
\* remoteDelete in any order, yield the same `characters` and visible
\* flags: what the document holds is a function of the set applied.
C35_RemoteOperationsCommute ==
    call.name = "remote"
    => characters[LocalSite] = DocumentOf(call.start, AppliedRemote)

\* Two Inserts and a Delete have been applied to a document of two records.
C35_Witness ==
    /\ call.name = "remote"
    /\ call.pending = {}
    /\ Len(call.start) = 2
    /\ Len(characters[LocalSite]) = 4
    /\ \E i \in 1..4 : ~characters[LocalSite][i].visible

\* ------------------------------------------------------------------------
\* What leaves the document, and what the replicas send
\* ------------------------------------------------------------------------

\* The ids of the visible records of a document.
VisibleIds(chars) == {chars[i].id : i \in {j \in 1..Len(chars) : chars[j].visible}}

\* C36 (records leave the document only through tombstone GC): over every
\* step, every visible record of a replica's document is still in the
\* document; the clear action of the editor included.
C36_VisibleRecordsStay ==
    [][\A r \in Sites : VisibleIds(characters[r]) \subseteq Ids(characters'[r])]_vars

\* The envelopes put in flight by a step.
NewEnvelopes == {x.msg : x \in storage' \ storage}

\* C37 (message exchange quiesces): handling an Ack puts no envelope in
\* flight; handling an operation envelope puts at most one envelope in
\* flight, an Ack, and sends no operation; and with every envelope in flight
\* eventually handled, a state with no envelope in flight is reached again
\* and again.
C37_Quiescence ==
    /\ [][\A e \in storage :
             Deliver(e)
             => /\ sentMessages' = sentMessages
                /\ \A m \in NewEnvelopes : m.type = "ack"
                /\ Cardinality(NewEnvelopes) <= 1
                /\ e.msg.type = "ack" => NewEnvelopes = {}
         ]_vars
    /\ (storage # {}) ~> (storage = {})

\* Operations were sent and acknowledged, an Ack has been handled, and
\* nothing is in flight.
C37_Witness ==
    /\ storage = {}
    /\ sentMessages # {}
    /\ \E r \in Sites : ackLog[r] # <<>>
    /\ \E e \in delivered : e.msg.type = "ack"

\* C38 (garbage collection keeps order): of two records garbageCollect
\* retains, the one that came first in the document before the call comes
\* first after it.
C38_GarbageCollectKeepsOrder ==
    [][\A r \in Sites :
          \A keepRecent \in 0..MaxKeep :
              GarbageCollect(r, keepRecent)
              => \A i, j \in 1..Len(characters'[r]) :
                    i < j
                    => IndexOfId(characters[r], characters'[r][i].id) <
                          IndexOfId(characters[r], characters'[r][j].id)
      ]_vars

\* The length of the longest common prefix of two texts.
PrefixOf(a, b) ==
    CHOOSE k \in 0..Min(Len(a), Len(b)) :
        /\ \A i \in 1..k : a[i] = b[i]
        /\ k < Min(Len(a), Len(b)) => a[k + 1] # b[k + 1]

\* The length of the longest common suffix of two texts that leaves the
\* first p characters of both alone.
SuffixOf(a, b, p) ==
    CHOOSE k \in 0..(Min(Len(a), Len(b)) - p) :
        /\ \A i \in 0..(k - 1) : a[Len(a) - i] = b[Len(b) - i]
        /\ k < Min(Len(a), Len(b)) - p => a[Len(a) - k] # b[Len(b) - k]

\* C39 (diff application is exact): after handleInput, getText() is the
\* text of the textarea; the visible records of the common prefix and of
\* the common suffix are the records that were there, every record that
\* was hidden or added lies in the middle span, and one operation is sent
\* for each character of the old middle span and of the new one, no more.
C39_DiffApplicationExact ==
    [][\A currentText \in Texts :
          HandleInput(LocalSite, currentText)
          => LET previousText == getText(characters[LocalSite])
                 p    == PrefixOf(previousText, currentText)
                 s    == SuffixOf(previousText, currentText, p)
                 was  == VisibleChars(characters[LocalSite])
                 is   == VisibleChars(characters'[LocalSite])
             IN  /\ getText(characters'[LocalSite]) = currentText
                 /\ Len(is) = Len(currentText)
                 /\ \A i \in 1..p : is[i].id = was[i].id
                 /\ \A i \in 0..(s - 1) :
                       is[Len(is) - i].id = was[Len(was) - i].id
                 /\ \A i \in (p + 1)..(Len(is) - s) :
                       is[i].id \notin Ids(characters[LocalSite])
                 /\ Cardinality(sentMessages') - Cardinality(sentMessages) =
                       (Len(previousText) - p - s) + (Len(currentText) - p - s)
      ]_vars

\* An input has replaced two characters by one: two Deletes, the later
\* character first, then an Insert.
C39_Witness ==
    \E i \in 1..(Len(operationHistory[LocalSite]) - 2) :
        LET h == operationHistory[LocalSite]
        IN  /\ h[i].type = "delete"
            /\ h[i + 1].type = "delete"
            /\ h[i + 2].type = "insert"
            /\ h[i + 1].position < h[i].position
            /\ h[i + 1].timestamp < h[i + 2].timestamp

\* C40 (record clocks are covered by the replica clock): in every state
\* the vector clock of every record of a replica's document is at most
\* the replica's vector clock in every component, and the record a
\* localInsert creates carries the replica's clock as it is right after
\* the insertion, its own component included.
C40_RecordClocksCovered ==
    /\ [](\A r \in Sites :
             \A i \in 1..Len(characters[r]) :
                 \A s \in Sites :
                     characters[r][i].vectorClock[s] <= vectorClock[r][s])
    /\ [][\A r \in Sites :
             LET h == operationHistory'[r]
             IN  /\ Len(h) = Len(operationHistory[r]) + 1
                 /\ h[Len(h)].type = "insert"
                 => LET char == h[Len(h)].char
                    IN  /\ char.id \notin Ids(characters[r])
                        /\ \E i \in 1..Len(characters'[r]) :
                               characters'[r][i] = char
                        /\ char.vectorClock[r] = vectorClock'[r][r]
                        /\ char.vectorClock[r] = vectorClock[r][r] + 1
      ]_vars

\* A replica holds a record of another replica and a record of its own,
\* and its clock has moved on since its own record was created.
C40_Witness ==
    \E r \in Sites :
        \E i, j \in 1..Len(characters[r]) :
            /\ characters[r][i].siteId = r
            /\ characters[r][j].siteId # r
            /\ characters[r][i].vectorClock # vectorClock[r]

====
